---- MODULE Spec2Model ----
(***************************************************************************)
(* Model of the Diffie-Hellman exchange object of charon                   *)
(* (Source/charon/transforms/diffie_hellman.c).                            *)
(*                                                                         *)
(* Two exchange objects, A and B, live in two slots.  Every public         *)
(* operation of diffie_hellman_t is one action.  Big integers (mpz_t) are  *)
(* records [init, v]: init tells whether the GMP value has been            *)
(* initialised, v is its numeric value.  Chunks are sequences of bytes.    *)
(*                                                                         *)
(* The MODP moduli of the source have 768 to 8192 bits; the model keeps    *)
(* the group table (identifiers, order, generator) and replaces each       *)
(* modulus by a prime of one or two bytes whose first byte has its high    *)
(* bit set, so that modular exponentiation stays inside TLC's integers.    *)
(***************************************************************************)
EXTENDS Integers, Sequences, FiniteSets, TLC

(* ------------------------------ bounds -------------------------------- *)

\* private exponents are drawn from 0 .. MaxExp
MaxExp == 2
\* set_other_public_value is called at most MaxSets times on one object
MaxSets == 2
\* diffie_hellman_create is called at most MaxAttempts times in a run
MaxAttempts == 3

Objs == {"A", "B"}
Peer(o) == IF o = "A" THEN "B" ELSE "A"
Exponents == 0 .. MaxExp
\* larger private exponents, among them the order of the generator in the one-byte group
LargeExponents == {25, 50}

(* --------------------------- group table ------------------------------ *)

MODP_768_BIT == 1
MODP_1024_BIT == 2
MODP_1536_BIT == 5
MODP_2048_BIT == 14
MODP_3072_BIT == 15
MODP_4096_BIT == 16
MODP_6144_BIT == 17
MODP_8192_BIT == 18

\* scaled-down moduli: big-endian bytes of a prime, high bit of byte 1 set
group1_modulus == <<251>>
group2_modulus == <<128, 3>>
group5_modulus == <<128, 11>>
group14_modulus == <<128, 15>>
group15_modulus == <<128, 21>>
group16_modulus == <<128, 29>>
group17_modulus == <<128, 33>>
group18_modulus == <<128, 35>>

modulus_info_entry_t(g, m, len, gen) ==
    [group |-> g, modulus |-> m, modulus_length |-> len, generator |-> gen]

modulus_info_entries ==
    << modulus_info_entry_t(MODP_768_BIT, group1_modulus, Len(group1_modulus), 2),
       modulus_info_entry_t(MODP_1024_BIT, group2_modulus, Len(group2_modulus), 2),
       modulus_info_entry_t(MODP_1536_BIT, group5_modulus, Len(group5_modulus), 2),
       modulus_info_entry_t(MODP_2048_BIT, group14_modulus, Len(group14_modulus), 2),
       modulus_info_entry_t(MODP_3072_BIT, group15_modulus, Len(group15_modulus), 2),
       modulus_info_entry_t(MODP_4096_BIT, group16_modulus, Len(group16_modulus), 2),
       modulus_info_entry_t(MODP_6144_BIT, group17_modulus, Len(group17_modulus), 2),
       modulus_info_entry_t(MODP_8192_BIT, group18_modulus, Len(group18_modulus), 2) >>

\* sizeof(groupN_modulus): the number of initialisers of each array
sizeof_group1_modulus == 96
sizeof_group2_modulus == 128
sizeof_group5_modulus == 192
sizeof_group14_modulus == 256
sizeof_group15_modulus == 384
sizeof_group16_modulus == 512
sizeof_group17_modulus == 768
sizeof_group18_modulus == 1024

\* the table with the lengths the source arrays have (the moduli keep
\* their modelled values)
modulus_info_entries_sizeof ==
    << modulus_info_entry_t(MODP_768_BIT, group1_modulus, sizeof_group1_modulus, 2),
       modulus_info_entry_t(MODP_1024_BIT, group2_modulus, sizeof_group2_modulus, 2),
       modulus_info_entry_t(MODP_1536_BIT, group5_modulus, sizeof_group5_modulus, 2),
       modulus_info_entry_t(MODP_2048_BIT, group14_modulus, sizeof_group14_modulus, 2),
       modulus_info_entry_t(MODP_3072_BIT, group15_modulus, sizeof_group15_modulus, 2),
       modulus_info_entry_t(MODP_4096_BIT, group16_modulus, sizeof_group16_modulus, 2),
       modulus_info_entry_t(MODP_6144_BIT, group17_modulus, sizeof_group17_modulus, 2),
       modulus_info_entry_t(MODP_8192_BIT, group18_modulus, sizeof_group18_modulus, 2) >>

\* the eight MODP groups
ModpGroups == {MODP_768_BIT, MODP_1024_BIT, MODP_1536_BIT, MODP_2048_BIT,
               MODP_3072_BIT, MODP_4096_BIT, MODP_6144_BIT, MODP_8192_BIT}

\* group identifiers for the table lookup: the eight groups and one
\* identifier without an entry
TableGroups == ModpGroups \cup {3}

\* group identifiers a caller passes to diffie_hellman_create: two table
\* groups, one identifier without an entry, and one that equals
\* MODP_768_BIT only after truncation to 16 bits
GroupInputs == {MODP_768_BIT, MODP_1024_BIT, 3, 65536 + MODP_768_BIT}

\* what an uninitialised big integer may hold when it is read
DecodeGarbage == {0, 3}

PairGroups == {MODP_768_BIT, MODP_1024_BIT}

\* chunks a caller passes to set_other_public_value (besides the peer's
\* public value): the values 0 and 1, a value with leading zero bytes, and
\* a value wider than every modelled modulus
PeerChunks == {<<0>>, <<1>>, <<0, 0, 3>>, <<1, 0, 0>>}

(* ------------------------------ state --------------------------------- *)

VARIABLES
    obj,       \* obj[o]: the private_diffie_hellman_t in slot o
    life,      \* life[o]: "none" | "live" | "destroyed"
    heap,      \* allocator blocks handed out and not freed
    helpers,   \* gmp_helper_t objects created and not destroyed
    lost,      \* GMP values initialised, never cleared, and no longer owned
    attempts,  \* calls of diffie_hellman_create so far
    ret,       \* the last call: operation, object, arguments and results
    hist       \* hist[o]: history of slot o (what the caller has observed)

\* the leak-tracking allocator (allocator.c)
VARIABLES
    allocations, \* private_allocator_t.allocations: the newest record, or NULL
    mutex,       \* private_allocator_t.mutex: the thread that holds it, or NoThread
    mem,         \* mem[b]: block b of the C heap, its memory_hdr_t and its bytes
    th,          \* th[t]: where thread t is in its call, and the call's locals
    acc,         \* what the last step touched of the list, and under the mutex or not
    aret         \* the allocator call that has just returned, and what it returned

\* the message assert listener (exchange_test_asserts.c) and the TSS2
\* binding (tpm_tss_tss2.c)
VARIABLES
    lsn,         \* the listener_message_assert_t, its registration, its last call
    tss          \* tss[o]: the private_tpm_tss_tss2_t in slot o and its create call

dhvars == <<obj, life, heap, helpers, lost, attempts, ret, hist>>

avars == <<allocations, mutex, mem, th, acc, aret>>

tvars == <<lsn, tss>>

vars == <<dhvars, avars, tvars>>

(* ----------------------------- mpz_t ---------------------------------- *)

mpz_uninit == [init |-> FALSE, v |-> 0]
mpz_value(x) == [init |-> TRUE, v |-> x]

MpzFields == {"modulus", "my_prime", "my_public_value",
              "other_public_value", "shared_secret"}

\* mpz_init / mpz_init_set on field f of this: the field now holds x; a
\* value the field already held is overwritten without being cleared
mpz_init_set(this, f, x) ==
    [this EXCEPT ![f] = mpz_value(x),
                 !.leak = IF this[f].init THEN @ + 1 ELSE @]

\* mpz_powm(rop, base, exp, mod): binary (square and multiply) exponentiation
RECURSIVE mpz_powm(_, _, _)
mpz_powm(base, exp, mod) ==
    IF exp = 0 THEN 1 % mod
    ELSE LET h == mpz_powm(base, exp \div 2, mod)
             sq == (h * h) % mod
         IN  IF exp % 2 = 1 THEN (sq * (base % mod)) % mod ELSE sq

(* --------------------------- gmp_helper ------------------------------- *)

\* chunk_to_mpz: the chunk read as a big-endian unsigned magnitude
RECURSIVE chunk_to_mpz(_)
chunk_to_mpz(chunk) ==
    IF chunk = <<>> THEN 0
    ELSE chunk_to_mpz(SubSeq(chunk, 1, Len(chunk) - 1)) * 256 + chunk[Len(chunk)]

\* the bytes of value, least significant last, filled from the right
RECURSIVE mpz_bytes(_, _)
mpz_bytes(value, bytes) ==
    IF bytes = 0 THEN <<>>
    ELSE Append(mpz_bytes(value \div 256, bytes - 1), value % 256)

RECURSIVE mpz_rest(_, _)
mpz_rest(value, bytes) ==
    IF bytes = 0 THEN value ELSE mpz_rest(value \div 256, bytes - 1)

\* mpz_to_chunk: exactly `bytes` bytes, left-zero-padded; FAILED (and no
\* chunk) when the value does not fit
mpz_to_chunk(value, bytes) ==
    IF mpz_rest(value, bytes) # 0
    THEN [status |-> "FAILED", written |-> FALSE, chunk |-> <<>>]
    ELSE [status |-> "SUCCESS", written |-> TRUE, chunk |-> mpz_bytes(value, bytes)]

\* init_prime: the private exponent x from the random source, or a failure
\* that leaves my_prime untouched
init_prime(this, ok, x) ==
    IF ok THEN [status |-> "SUCCESS", this |-> mpz_init_set(this, "my_prime", x)]
    ELSE [status |-> "FAILED", this |-> this]

(* ------------------------ private_diffie_hellman_t -------------------- *)

\* object memory as allocator_alloc_thing returns it, before any field is set
Blank ==
    [dh_group_number |-> 0, modulus |-> mpz_uninit, modulus_length |-> 0,
     generator |-> 0, my_prime |-> mpz_uninit, my_public_value |-> mpz_uninit,
     other_public_value |-> mpz_uninit, shared_secret |-> mpz_uninit,
     my_public_value_is_computed |-> FALSE, shared_secret_is_computed |-> FALSE,
     gmp_helper |-> FALSE, leak |-> 0]

\* number of GMP values the object holds initialised, plus those it overwrote
MpzHeld(this) == Cardinality({f \in MpzFields : this[f].init}) + this.leak

(* ------------------- diffie_hellman.c: private functions -------------- *)

\* mutant: stores the entry's generator as the length and the length as
\* the generator
set_modulus_in_swapped(entries, this) ==
    LET hits == {i \in DOMAIN entries : entries[i].group = this.dh_group_number}
    IN  IF hits = {} THEN [status |-> "NOT_FOUND", this |-> this]
        ELSE LET i == CHOOSE k \in hits : \A j \in hits : k <= j
                 t1 == mpz_init_set(this, "modulus", chunk_to_mpz(entries[i].modulus))
             IN  [status |-> "SUCCESS",
                  this |-> [t1 EXCEPT !.modulus_length = entries[i].generator,
                                      !.generator = entries[i].modulus_length]]

\* set_modulus over the table `entries`: the first entry of
\* this->dh_group_number, if any
set_modulus_in(entries, this) ==
    LET hits == {i \in DOMAIN entries : entries[i].group = this.dh_group_number}
    IN  IF hits = {} THEN [status |-> "NOT_FOUND", this |-> this]
        ELSE LET i == CHOOSE k \in hits : \A j \in hits : k <= j
                 modulus_chunk == entries[i].modulus
                 len == entries[i].modulus_length
                 t1 == mpz_init_set(this, "modulus", chunk_to_mpz(modulus_chunk))
             IN  [status |-> "SUCCESS",
                  this |-> [t1 EXCEPT !.modulus_length = len,
                                      !.generator = entries[i].generator]]

set_modulus(this) == set_modulus_in(modulus_info_entries, this)

\* mutant: the peer's value taken as the shared secret, not reduced
compute_shared_secret_unreduced(this) ==
    LET t1 == mpz_init_set(this, "shared_secret", 0)
        t2 == [t1 EXCEPT !.shared_secret = mpz_value(t1.other_public_value.v)]
    IN  [t2 EXCEPT !.shared_secret_is_computed = TRUE]

\* mutant: base and exponent of mpz_powm exchanged
compute_shared_secret_swapped(this) ==
    LET t1 == mpz_init_set(this, "shared_secret", 0)
        t2 == [t1 EXCEPT !.shared_secret =
                  mpz_value(mpz_powm(t1.my_prime.v, t1.other_public_value.v,
                                     t1.modulus.v))]
    IN  [t2 EXCEPT !.shared_secret_is_computed = TRUE]

\* compute_shared_secret: other_public_value ^ my_prime mod modulus
compute_shared_secret(this) ==
    LET t1 == mpz_init_set(this, "shared_secret", 0)
        t2 == [t1 EXCEPT !.shared_secret =
                  mpz_value(mpz_powm(t1.other_public_value.v, t1.my_prime.v,
                                     t1.modulus.v))]
    IN  [t2 EXCEPT !.shared_secret_is_computed = TRUE]

\* mutant: marks the shared secret, not the public value, as computed
compute_public_value_wrong_flag(this) ==
    LET generator == this.generator
        t1 == mpz_init_set(this, "my_public_value", 0)
        t2 == [t1 EXCEPT !.my_public_value =
                  mpz_value(mpz_powm(generator, t1.my_prime.v, t1.modulus.v))]
    IN  [t2 EXCEPT !.shared_secret_is_computed = TRUE]

\* mutant: raises the peer's public value instead of the generator
compute_public_value_peer_base(this) ==
    LET t1 == mpz_init_set(this, "my_public_value", 0)
        t2 == [t1 EXCEPT !.my_public_value =
                  mpz_value(mpz_powm(t1.other_public_value.v, t1.my_prime.v,
                                     t1.modulus.v))]
    IN  [t2 EXCEPT !.my_public_value_is_computed = TRUE]

\* mutant: base and exponent of mpz_powm exchanged
compute_public_value_swapped(this) ==
    LET generator == this.generator
        t1 == mpz_init_set(this, "my_public_value", 0)
        t2 == [t1 EXCEPT !.my_public_value =
                  mpz_value(mpz_powm(t1.my_prime.v, generator, t1.modulus.v))]
    IN  [t2 EXCEPT !.my_public_value_is_computed = TRUE]

\* compute_public_value: generator ^ my_prime mod modulus
compute_public_value(this) ==
    LET generator == this.generator
        t1 == mpz_init_set(this, "my_public_value", 0)
        t2 == [t1 EXCEPT !.my_public_value =
                  mpz_value(mpz_powm(generator, t1.my_prime.v, t1.modulus.v))]
    IN  [t2 EXCEPT !.my_public_value_is_computed = TRUE]

(* ------------------- diffie_hellman.c: public functions --------------- *)

\* the result of a getter: the object afterwards, the status, the chunk
Result(this, r) ==
    [this |-> this, status |-> r.status, written |-> r.written, chunk |-> r.chunk]

NoChunk(this, status) ==
    [this |-> this, status |-> status, written |-> FALSE, chunk |-> <<>>]

\* mutant: peer values 0 and 1 are refused
set_other_public_value_validates(this, public_value) ==
    IF chunk_to_mpz(public_value) < 2 THEN NoChunk(this, "FAILED")
    ELSE LET t1 == mpz_init_set(this, "other_public_value",
                                chunk_to_mpz(public_value))
         IN  NoChunk(compute_shared_secret(t1), "SUCCESS")

\* mutant: decodes the peer value into my_prime
set_other_public_value_into_prime(this, public_value) ==
    LET t1 == mpz_init_set(this, "other_public_value", chunk_to_mpz(public_value))
        t2 == [t1 EXCEPT !.my_prime = mpz_value(chunk_to_mpz(public_value))]
    IN  NoChunk(compute_shared_secret(t2), "SUCCESS")

\* mutant: starts the object over before taking the peer value
set_other_public_value_restarts(this, public_value) ==
    LET t0 == [this EXCEPT !.my_public_value_is_computed = FALSE]
        t1 == mpz_init_set(t0, "other_public_value", chunk_to_mpz(public_value))
    IN  NoChunk(compute_shared_secret(t1), "SUCCESS")

\* mutant: stores the peer value and leaves the shared secret for later
set_other_public_value_lazy(this, public_value) ==
    NoChunk(mpz_init_set(this, "other_public_value", chunk_to_mpz(public_value)),
            "SUCCESS")

set_other_public_value(this, public_value) ==
    LET t1 == mpz_init_set(this, "other_public_value", chunk_to_mpz(public_value))
    IN  NoChunk(compute_shared_secret(t1), "SUCCESS")

\* chunk_to_mpz when the adapter cannot allocate: the target is left as it
\* was; a target that was never initialised holds whatever its memory holds
chunk_to_mpz_failed(this, garbage) ==
    IF this.other_public_value.init THEN this
    ELSE [this EXCEPT !.other_public_value = [init |-> FALSE, v |-> garbage]]

\* set_other_public_value when chunk_to_mpz fails: the call's outcome is not
\* looked at, compute_shared_secret runs and SUCCESS is returned
set_other_public_value_decode_failed(this, garbage) ==
    NoChunk(compute_shared_secret(chunk_to_mpz_failed(this, garbage)), "SUCCESS")

\* mutant: encodes the shared secret in place of the peer value
get_other_public_value_secret(this) ==
    IF ~this.shared_secret_is_computed THEN NoChunk(this, "FAILED")
    ELSE Result(this, mpz_to_chunk(this.shared_secret.v, this.modulus_length))

\* mutant: no check of shared_secret_is_computed
get_other_public_value_unguarded(this) ==
    Result(this, mpz_to_chunk(this.other_public_value.v, this.modulus_length))

get_other_public_value(this) ==
    IF ~this.shared_secret_is_computed THEN NoChunk(this, "FAILED")
    ELSE Result(this, mpz_to_chunk(this.other_public_value.v, this.modulus_length))

\* the number of bytes of value without leading zero bytes
RECURSIVE NaturalLength(_)
NaturalLength(value) == IF value = 0 THEN 0 ELSE 1 + NaturalLength(value \div 256)

\* mutant: encodes to the value's natural length, without padding
get_my_public_value_unpadded(this) ==
    LET t1 == IF this.my_public_value_is_computed = FALSE
              THEN compute_public_value(this) ELSE this
    IN  Result(t1, mpz_to_chunk(t1.my_public_value.v,
                                NaturalLength(t1.my_public_value.v)))

\* mutant: runs the exponentiation on every call
get_my_public_value_recomputes(this) ==
    LET t1 == compute_public_value(this)
    IN  Result(t1, mpz_to_chunk(t1.my_public_value.v, t1.modulus_length))

get_my_public_value(this) ==
    LET t1 == IF this.my_public_value_is_computed = FALSE
              THEN compute_public_value(this) ELSE this
    IN  Result(t1, mpz_to_chunk(t1.my_public_value.v, t1.modulus_length))

get_shared_secret(this) ==
    IF ~this.shared_secret_is_computed THEN NoChunk(this, "FAILED")
    ELSE Result(this, mpz_to_chunk(this.shared_secret.v, this.modulus_length))

\* mutant: clears all five values whatever the flags say
destroy_clears_all(this) ==
    [cleared |-> MpzFields,
     ub |-> \E f \in MpzFields : ~this[f].init,
     lost |-> this.leak]

\* destroy: which GMP values are cleared; clearing one that was never
\* initialised is undefined behaviour (ub)
destroy(this) ==
    LET cleared == {"modulus", "my_prime"}
                   \cup (IF this.my_public_value_is_computed
                         THEN {"my_public_value"} ELSE {})
                   \cup (IF this.shared_secret_is_computed
                         THEN {"other_public_value", "shared_secret"} ELSE {})
    IN  [cleared |-> cleared,
         ub |-> \E f \in cleared : ~this[f].init,
         lost |-> Cardinality({f \in MpzFields \ cleared : this[f].init}) + this.leak]

\* diffie_hellman_create, the four ways out without an object.  Each tells
\* what the attempt leaves behind: allocator blocks (mem), gmp helpers
\* (helper) and initialised GMP values nobody owns any more (lost).
create_no_memory ==
    [ok |-> FALSE, cause |-> "allocator_alloc_thing", this |-> Blank,
     mem |-> 0, helper |-> 0, lost |-> 0]

\* allocator_free(this)
create_no_helper(this) ==
    [ok |-> FALSE, cause |-> "gmp_helper_create", this |-> Blank,
     mem |-> 0, helper |-> 0, lost |-> MpzHeld(this)]

\* mutant: frees the object without destroying the gmp helper
create_no_modulus_keeps_helper(this) ==
    [ok |-> FALSE, cause |-> "set_modulus", this |-> Blank,
     mem |-> 0, helper |-> 1, lost |-> MpzHeld(this)]

\* gmp_helper->destroy, allocator_free(this)
create_no_modulus(this) ==
    [ok |-> FALSE, cause |-> "set_modulus", this |-> Blank,
     mem |-> 0, helper |-> 0, lost |-> MpzHeld(this)]

\* gmp_helper->destroy, allocator_free(this); no mpz_clear
create_no_prime(this) ==
    [ok |-> FALSE, cause |-> "init_prime", this |-> Blank,
     mem |-> 0, helper |-> 0, lost |-> MpzHeld(this)]

\* diffie_hellman_create over the table `entries`
diffie_hellman_create_in(entries, dh_group_number, mem_ok, helper_ok, prime_ok, x) ==
    IF ~mem_ok THEN create_no_memory
    ELSE LET t0 == [Blank EXCEPT !.dh_group_number = dh_group_number % 65536,
                                 !.gmp_helper = helper_ok]
         IN  IF ~helper_ok THEN create_no_helper(t0)
             ELSE LET sm == set_modulus_in(entries, t0)
                  IN  IF sm.status # "SUCCESS" THEN create_no_modulus(sm.this)
                      ELSE LET ip == init_prime(sm.this, prime_ok, x)
                           IN  IF ip.status # "SUCCESS" THEN create_no_prime(ip.this)
                               ELSE [ok |-> TRUE, cause |-> "",
                                     this |-> [ip.this EXCEPT
                                         !.my_public_value_is_computed = FALSE,
                                         !.shared_secret_is_computed = FALSE],
                                     mem |-> 1, helper |-> 1, lost |-> 0]

diffie_hellman_create(dh_group_number, mem_ok, helper_ok, prime_ok, x) ==
    diffie_hellman_create_in(modulus_info_entries, dh_group_number,
                             mem_ok, helper_ok, prime_ok, x)

(* ------------------------ allocator.c: state -------------------------- *)

MaxBlocks == 2

Threads == {"t1", "t2"}
NoThread == "none"

\* the blocks malloc can hand out; NULL is no block
Blocks == 1 .. MaxBlocks
NULL == 0

\* a block of the C heap that is not allocated (its content is indeterminate)
NoBlock ==
    [malloced |-> FALSE, filename |-> "", line |-> 0, size_of_memory |-> 0,
     older |-> NULL, newer |-> NULL, data |-> <<>>]

\* a thread outside every allocator call
Idle ==
    [pc |-> "idle", op |-> "", bytes |-> 0, file |-> "", line |-> 0,
     use_mutex |-> FALSE, allocated_memory |-> NULL, new_space |-> NULL,
     old |-> NULL, pointer |-> NULL, to_clone |-> <<>>, own |-> {},
     p |-> NULL, pprev |-> NULL, n |-> 0, lines |-> <<>>]

\* a step that touched nothing of the list
NoAcc ==
    [op |-> "", fn |-> "", touched |-> {}, held |-> FALSE, dangling |-> FALSE]

NoAret ==
    [thread |-> NoThread, op |-> "", arg |-> NULL, ptr |-> NULL, len |-> 0,
     lines |-> <<>>]

\* the static allocator object: empty list, mutex free
AllocInit ==
    /\ allocations = NULL
    /\ mutex = NoThread
    /\ mem = [b \in Blocks |-> NoBlock]
    /\ th = [t \in Threads |-> Idle]
    /\ acc = NoAcc
    /\ aret = NoAret

(* ------------- listener_message_assert_t, private_tpm_tss_tss2_t ------ *)

\* a listener_message_assert_t: the expected direction, the expected number
\* of payloads (negative: not checked), the payload type and the notify
\* type that must be present (0: none)
NoAssert == [incoming |-> FALSE, count |-> -1, payload |-> 0, notify |-> 0]

\* the last call of the listener: its arguments, whether it returned and
\* what, and the assertions it evaluated
NoCall ==
    [called |-> FALSE, plain |-> FALSE, incoming |-> FALSE, returned |-> FALSE,
     value |-> FALSE, asserts |-> <<>>]

\* no listener is registered with the bus
NoListener ==
    [registered |-> FALSE,   \* the bus calls the listener for every message
     this |-> NoAssert,
     skipped |-> FALSE,      \* a message has been passed over since registration
     checked |-> 0,          \* messages checked since registration
     failed |-> FALSE,       \* an assertion has failed
     ended |-> FALSE,        \* the failed assertion has ended the test
     last |-> NoCall]

\* the slots for TSS2 objects
TssObjs == {"X", "Y"}

\* slot without an object: no memory, no context
NoTss ==
    [pc |-> "none",            \* where the create or destroy call is
     this_mem |-> "none",      \* the object's memory: none, allocated, freed
     tcti_context |-> FALSE,   \* this->tcti_context is not NULL
     sys_context |-> FALSE,    \* this->sys_context is not NULL
     tcti_buf |-> "none",      \* the buffer malloc'ed for the TCTI context
     sys_buf |-> "none",       \* the buffer malloc'ed for the SYS context
     tcti_state |-> "none",    \* none, initialized, torn_down
     sys_state |-> "none",     \* none, initialized, finalized
     failed_at |-> "",         \* the step of initialize_context that failed
     misused |-> {},           \* contexts torn down or finalized uninitialised
     result |-> ""]            \* what tpm_tss_tss2_create returned

TestInit ==
    /\ lsn = NoListener
    /\ tss = [o \in TssObjs |-> NoTss]

(* ------------------------------ actions ------------------------------- *)

NoHist ==
    [sets |-> 0,              \* set_other_public_value calls on the object
     fed |-> FALSE,           \* the last peer chunk was the peer's public value
     last_peer |-> <<>>,      \* the last chunk given to set_other_public_value
     pub_calls |-> 0,         \* get_my_public_value calls (counted up to 2)
     pub_runs |-> 0,          \* calls in which compute_public_value ran
     first_pub |-> <<>>,      \* the chunk of the first get_my_public_value
     pub_after_set |-> FALSE] \* that first call came after a set_other_public_value

NoRet ==
    [op |-> "", obj |-> "A", group |-> 0, status |-> "", written |-> FALSE,
     chunk |-> <<>>, cause |-> "", ub |-> FALSE]

Init ==
    /\ AllocInit
    /\ TestInit
    /\ obj = [o \in Objs |-> Blank]
    /\ life = [o \in Objs |-> "none"]
    /\ heap = 0
    /\ helpers = 0
    /\ lost = 0
    /\ attempts = 0
    /\ ret = NoRet
    /\ hist = [o \in Objs |-> NoHist]

\* what the caller of diffie_hellman_create gets: the object, or NULL on
\* every failure
CreateResult(c) == IF c.ok THEN "OBJECT" ELSE "NULL"

\* a call of diffie_hellman_create with a group of `groups` and a private
\* exponent of `exps`; `oks` tells whether the allocator, gmp_helper_create
\* and init_prime may fail
CreateIn(o, entries, groups, oks, exps) ==
    /\ life[o] = "none"
    /\ attempts < MaxAttempts
    /\ \E g \in groups, mem_ok \in oks, helper_ok \in oks,
          prime_ok \in oks, x \in exps :
          LET c == diffie_hellman_create_in(entries, g, mem_ok, helper_ok, prime_ok, x)
          IN  /\ obj' = [obj EXCEPT ![o] = c.this]
              /\ life' = [life EXCEPT ![o] = IF c.ok THEN "live" ELSE "none"]
              /\ heap' = heap + c.mem
              /\ helpers' = helpers + c.helper
              /\ lost' = lost + c.lost
              /\ ret' = [NoRet EXCEPT !.op = "diffie_hellman_create", !.obj = o,
                                      !.group = g, !.cause = c.cause,
                                      !.status = CreateResult(c)]
    /\ attempts' = attempts + 1
    /\ hist' = [hist EXCEPT ![o] = NoHist]
    /\ UNCHANGED <<avars, tvars>>

CreateWith(o, groups, oks, exps) ==
    CreateIn(o, modulus_info_entries, groups, oks, exps)

Returned(op, o, r) ==
    [NoRet EXCEPT !.op = op, !.obj = o, !.status = r.status,
                  !.written = r.written, !.chunk = r.chunk]

GetMyPublicValue(o) ==
    /\ life[o] = "live"
    /\ LET r == get_my_public_value(obj[o])
           h == hist[o]
       IN  /\ obj' = [obj EXCEPT ![o] = r.this]
           /\ ret' = Returned("get_my_public_value", o, r)
           /\ hist' = [hist EXCEPT ![o] =
                  [h EXCEPT !.pub_calls = IF @ < 2 THEN @ + 1 ELSE @,
                            !.pub_runs = IF r.this # obj[o] THEN @ + 1 ELSE @,
                            !.first_pub = IF h.pub_calls = 0 THEN r.chunk ELSE @,
                            !.pub_after_set = IF h.pub_calls = 0 THEN h.sets > 0 ELSE @]]
    /\ UNCHANGED <<life, heap, helpers, lost, attempts, avars, tvars>>

SetOther(o, public_value, from_peer) ==
    LET r == set_other_public_value(obj[o], public_value)
    IN  /\ obj' = [obj EXCEPT ![o] = r.this]
        /\ ret' = Returned("set_other_public_value", o, r)
        /\ hist' = [hist EXCEPT ![o].sets = @ + 1, ![o].fed = from_peer,
                                ![o].last_peer = public_value]
        /\ UNCHANGED <<life, heap, helpers, lost, attempts, avars, tvars>>

\* the caller passes a chunk of its own
SetOtherIn(o, chunks) ==
    /\ life[o] = "live"
    /\ hist[o].sets < MaxSets
    /\ \E c \in chunks : SetOther(o, c, FALSE)

SetOtherPublicValue(o) == SetOtherIn(o, PeerChunks)

SetOtherStray(o) == SetOtherIn(o, {<<1>>})

\* the caller passes a chunk and the big-integer adapter fails to decode it
SetOtherDecodeFails(o) ==
    /\ life[o] = "live"
    /\ hist[o].sets < MaxSets
    /\ \E c \in PeerChunks, g \in DecodeGarbage :
          LET r == set_other_public_value_decode_failed(obj[o], g)
          IN  /\ obj' = [obj EXCEPT ![o] = r.this]
              /\ ret' = [Returned("set_other_public_value", o, r)
                             EXCEPT !.cause = "chunk_to_mpz"]
              /\ hist' = [hist EXCEPT ![o].sets = @ + 1, ![o].fed = FALSE,
                                      ![o].last_peer = c]
              /\ UNCHANGED <<life, heap, helpers, lost, attempts, avars, tvars>>

\* the caller passes the chunk it got from the peer's get_my_public_value
SetOtherFromPeer(o) ==
    /\ life[o] = "live"
    /\ hist[o].sets < MaxSets
    /\ life[Peer(o)] = "live"
    /\ hist[Peer(o)].pub_calls > 0
    /\ SetOther(o, hist[Peer(o)].first_pub, TRUE)

GetOtherPublicValue(o) ==
    /\ life[o] = "live"
    /\ LET r == get_other_public_value(obj[o])
       IN  /\ obj' = [obj EXCEPT ![o] = r.this]
           /\ ret' = Returned("get_other_public_value", o, r)
    /\ UNCHANGED <<life, heap, helpers, lost, attempts, hist, avars, tvars>>

GetSharedSecret(o) ==
    /\ life[o] = "live"
    /\ LET r == get_shared_secret(obj[o])
       IN  /\ obj' = [obj EXCEPT ![o] = r.this]
           /\ ret' = Returned("get_shared_secret", o, r)
    /\ UNCHANGED <<life, heap, helpers, lost, attempts, hist, avars, tvars>>

Destroy(o) ==
    /\ life[o] = "live"
    /\ LET d == destroy(obj[o])
       IN  /\ lost' = lost + d.lost
           /\ ret' = [NoRet EXCEPT !.op = "destroy", !.obj = o,
                                   !.status = "SUCCESS", !.ub = d.ub]
    /\ obj' = [obj EXCEPT ![o] = Blank]
    /\ life' = [life EXCEPT ![o] = "destroyed"]
    /\ heap' = heap - 1
    /\ helpers' = helpers - 1
    /\ UNCHANGED <<attempts, hist, avars, tvars>>

Create(o) == CreateWith(o, GroupInputs, BOOLEAN, Exponents \cup LargeExponents)

CreateOk(o) == CreateWith(o, PairGroups, {TRUE}, Exponents)

\* a call of diffie_hellman_create over the table with the source's lengths
CreateSizeof(o) ==
    CreateIn(o, modulus_info_entries_sizeof, TableGroups, BOOLEAN, Exponents)

\* one exchange object, every operation, every input
Next ==
    \/ Create("A")
    \/ GetMyPublicValue("A")
    \/ SetOtherPublicValue("A")
    \/ GetOtherPublicValue("A")
    \/ GetSharedSecret("A")
    \/ Destroy("A")

Spec == Init /\ [][Next]_vars

\* two exchange objects that exchange their public values
NextPair ==
    \E o \in Objs :
        \/ CreateOk(o)
        \/ GetMyPublicValue(o)
        \/ SetOtherFromPeer(o)
        \/ SetOtherStray(o)
        \/ GetSharedSecret(o)

SpecPair == Init /\ [][NextPair]_vars

\* one exchange object whose peer chunk may fail to decode
NextDecode ==
    \/ Next
    \/ SetOtherDecodeFails("A")

SpecDecode == Init /\ [][NextDecode]_vars

\* one exchange object over the table with the source's lengths
NextTable ==
    \/ CreateSizeof("A")
    \/ Destroy("A")

SpecTable == Init /\ [][NextTable]_vars

(* ------------------------ allocator.c: functions ---------------------- *)

\* sizes, call sites and clone sources of the calls the threads make
AllocSizes == {1}
CallSites == {<<"a.c", 1>>}
CloneSources == {<<7>>}

\* mutant: allocate_special is never told to take the mutex
use_mutex_never(op) == FALSE

\* mutant: allocate_special is always told to take the mutex
use_mutex_always(op) == TRUE

\* the use_mutex argument each public function passes to allocate_special:
\* TRUE from allocate, allocate_as_chunk and clone_bytes, FALSE from
\* reallocate, which holds the mutex itself
use_mutex_of(op) == op # "reallocate"

\* what a step of thread t in function fn touches of the list (the head
\* `allocations`, the older and newer links), and whether t holds the mutex
Touch(t, fn, touched) ==
    [op |-> th[t].op, fn |-> fn, touched |-> touched, held |-> mutex = t,
     dangling |-> FALSE]

\* no assertion has failed: a failed assert aborts the process
Running == \A t \in Threads : th[t].pc # "aborted"

\* thread t is at label
At(t, label) == Running /\ th[t].pc = label

\* thread t moves on inside its call
Goto(t, label) == [th EXCEPT ![t].pc = label]

\* thread t returns to its caller, which now holds the blocks `own`
Done(t, own) == [th EXCEPT ![t] = [Idle EXCEPT !.own = own]]

Returns(t, arg, ptr, len) ==
    [thread |-> t, op |-> th[t].op, arg |-> arg, ptr |-> ptr, len |-> len,
     lines |-> <<>>]

\* mutant: the bytes are filled with a value other than zero
Zeros_sevens(n) == [i \in 1 .. n |-> 7]

\* n zero bytes: memset(allocated_memory + 1, '\0', bytes)
Zeros(n) == [i \in 1 .. n |-> 0]

\* memcpy(dst, src, n) on the bytes of two blocks
memcpy(dst, src, n) == [i \in 1 .. Len(dst) |-> IF i <= n THEN src[i] ELSE dst[i]]

Min(a, b) == IF a < b THEN a ELSE b

\* allocate and allocate_as_chunk: the call of allocate_special
CallAllocate(t, op, sizes, sites) ==
    /\ At(t, "idle")
    /\ \E n \in sizes, s \in sites :
          th' = [th EXCEPT ![t] = [@ EXCEPT !.pc = "as_malloc", !.op = op,
                                            !.bytes = n, !.file = s[1], !.line = s[2],
                                            !.use_mutex = use_mutex_of(op)]]
    /\ acc' = NoAcc
    /\ aret' = NoAret
    /\ UNCHANGED <<allocations, mutex, mem, dhvars, tvars>>

Allocate(t) == CallAllocate(t, "allocate", AllocSizes, CallSites)

AllocateAsChunk(t) == CallAllocate(t, "allocate_as_chunk", AllocSizes, CallSites)

\* clone_bytes: NULL for a NULL source, else the call of allocate_special
CallCloneBytes(t, sources, sites) ==
    /\ At(t, "idle")
    /\ \E null \in BOOLEAN, src \in sources, s \in sites :
          IF null
          THEN /\ aret' = [Returns(t, NULL, NULL, 0) EXCEPT !.op = "clone_bytes"]
               /\ th' = th
          ELSE /\ th' = [th EXCEPT ![t] = [@ EXCEPT !.pc = "as_malloc",
                                !.op = "clone_bytes", !.bytes = Len(src),
                                !.to_clone = src, !.file = s[1], !.line = s[2],
                                !.use_mutex = use_mutex_of("clone_bytes")]]
               /\ aret' = NoAret
    /\ acc' = NoAcc
    /\ UNCHANGED <<allocations, mutex, mem, dhvars, tvars>>

CloneBytes(t) == CallCloneBytes(t, CloneSources, CallSites)

\* free_pointer: nothing for NULL, else on to the lock
FreePointer(t) ==
    /\ At(t, "idle")
    /\ \E pointer \in th[t].own \cup {NULL} :
          IF pointer = NULL
          THEN /\ aret' = [Returns(t, NULL, NULL, 0) EXCEPT !.op = "free_pointer"]
               /\ th' = th
          ELSE /\ th' = [th EXCEPT ![t] = [@ EXCEPT !.pc = "fp_lock",
                                !.op = "free_pointer", !.pointer = pointer]]
               /\ aret' = NoAret
    /\ acc' = NoAcc
    /\ UNCHANGED <<allocations, mutex, mem, dhvars, tvars>>

\* mutant: reallocate of NULL allocates a block, as realloc does
CallReallocate_null_allocates(t, sizes, sites) ==
    /\ At(t, "idle")
    /\ \E old \in th[t].own \cup {NULL}, n \in sizes, s \in sites :
          IF old = NULL
          THEN /\ aret' = [Returns(t, NULL, NULL, 0) EXCEPT !.op = "reallocate"]
               /\ th' = th
               /\ mem' = [b \in Blocks |->
                             IF \A x \in Blocks : mem[x].malloced \/ b <= x
                             THEN [mem[b] EXCEPT !.malloced = TRUE] ELSE mem[b]]
          ELSE /\ th' = [th EXCEPT ![t] = [@ EXCEPT !.pc = "re_lock",
                                !.op = "reallocate", !.old = old, !.bytes = n,
                                !.file = s[1], !.line = s[2],
                                !.use_mutex = use_mutex_of("reallocate")]]
               /\ aret' = NoAret
               /\ mem' = mem
    /\ acc' = NoAcc
    /\ UNCHANGED <<allocations, mutex, dhvars, tvars>>

\* reallocate: NULL for a NULL old pointer, else on to the lock
CallReallocate(t, sizes, sites) ==
    /\ At(t, "idle")
    /\ \E old \in th[t].own \cup {NULL}, n \in sizes, s \in sites :
          IF old = NULL
          THEN /\ aret' = [Returns(t, NULL, NULL, 0) EXCEPT !.op = "reallocate"]
               /\ th' = th
          ELSE /\ th' = [th EXCEPT ![t] = [@ EXCEPT !.pc = "re_lock",
                                !.op = "reallocate", !.old = old, !.bytes = n,
                                !.file = s[1], !.line = s[2],
                                !.use_mutex = use_mutex_of("reallocate")]]
               /\ aret' = NoAret
    /\ acc' = NoAcc
    /\ UNCHANGED <<allocations, mutex, mem, dhvars, tvars>>

Reallocate(t) == CallReallocate(t, AllocSizes, CallSites)

\* allocate_special, line 115: malloc hands out a free block or fails
AsMalloc(t) ==
    /\ At(t, "as_malloc")
    /\ \E b \in {x \in Blocks : ~mem[x].malloced} \cup {NULL} :
          IF b = NULL
          THEN /\ th' = [th EXCEPT ![t].pc = "as_return", ![t].new_space = NULL,
                                   ![t].allocated_memory = NULL]
               /\ mem' = mem
          ELSE /\ th' = [th EXCEPT ![t].allocated_memory = b,
                                   ![t].pc = IF th[t].use_mutex THEN "as_lock"
                                             ELSE "as_fill"]
               /\ mem' = [mem EXCEPT ![b] = [NoBlock EXCEPT !.malloced = TRUE]]
    /\ acc' = NoAcc
    /\ aret' = NoAret
    /\ UNCHANGED <<allocations, mutex, dhvars, tvars>>

\* pthread_mutex_lock by thread t, which then goes on at label
Lock(t, fn, label) ==
    /\ mutex = NoThread
    /\ mutex' = t
    /\ th' = Goto(t, label)
    /\ acc' = NoAcc
    /\ aret' = NoAret
    /\ UNCHANGED <<allocations, mem, dhvars, tvars>>

\* pthread_mutex_unlock by thread t
Unlock(t, fn, label) ==
    /\ mutex' = NoThread
    /\ th' = Goto(t, label)
    /\ acc' = NoAcc
    /\ aret' = NoAret
    /\ UNCHANGED <<allocations, mem, dhvars, tvars>>

\* allocate_special, line 124
AsLock(t) == At(t, "as_lock") /\ Lock(t, "allocate_special", "as_fill")

\* allocate_special, lines 127-130: the header, its older link from the head
AsFill(t) ==
    /\ At(t, "as_fill")
    /\ mem' = [mem EXCEPT ![th[t].allocated_memory] =
                  [@ EXCEPT !.line = th[t].line, !.filename = th[t].file,
                            !.size_of_memory = th[t].bytes,
                            !.older = allocations]]
    /\ th' = Goto(t, "as_link")
    /\ acc' = Touch(t, "allocate_special", {"allocations", "older"})
    /\ aret' = NoAret
    /\ UNCHANGED <<allocations, mutex, dhvars, tvars>>

\* mutant: the old head is not given its newer link
AsLink_one_way(t) ==
    /\ At(t, "as_link")
    /\ LET b == th[t].allocated_memory
       IN  /\ mem' = [mem EXCEPT ![b] = [@ EXCEPT !.newer = NULL,
                                                  !.data = Zeros(th[t].bytes)]]
           /\ allocations' = b
           /\ th' = [th EXCEPT ![t].new_space = b,
                               ![t].pc = IF th[t].use_mutex THEN "as_unlock"
                                         ELSE "as_return"]
    /\ acc' = Touch(t, "allocate_special", {"allocations", "newer"})
    /\ aret' = NoAret
    /\ UNCHANGED <<mutex, dhvars, tvars>>

\* allocate_special, lines 131-139: the record becomes the head, zero fill
AsLink(t) ==
    /\ At(t, "as_link")
    /\ LET b == th[t].allocated_memory
       IN  /\ mem' = [x \in Blocks |->
                        IF x = b
                        THEN [mem[x] EXCEPT !.newer = NULL,
                                            !.data = Zeros(th[t].bytes)]
                        ELSE IF allocations # NULL /\ x = allocations
                             THEN [mem[x] EXCEPT !.newer = b]
                             ELSE mem[x]]
           /\ allocations' = b
           /\ th' = [th EXCEPT ![t].new_space = b,
                               ![t].pc = IF th[t].use_mutex THEN "as_unlock"
                                         ELSE "as_return"]
    /\ acc' = Touch(t, "allocate_special", {"allocations", "newer"})
    /\ aret' = NoAret
    /\ UNCHANGED <<mutex, dhvars, tvars>>

\* allocate_special, line 142
AsUnlock(t) == At(t, "as_unlock") /\ Unlock(t, "allocate_special", "as_return")

\* allocate (line 156) and allocate_as_chunk (lines 167-169) return
ReturnAllocate(t) ==
    /\ At(t, "as_return")
    /\ th[t].op \in {"allocate", "allocate_as_chunk"}
    /\ LET ptr == th[t].new_space
           len == IF th[t].op = "allocate_as_chunk" /\ ptr # NULL
                  THEN th[t].bytes ELSE 0
       IN  /\ aret' = Returns(t, NULL, ptr, len)
           /\ th' = Done(t, th[t].own \cup ({ptr} \ {NULL}))
    /\ acc' = NoAcc
    /\ UNCHANGED <<allocations, mutex, mem, dhvars, tvars>>

\* clone_bytes, lines 258-265: NULL, or the copy of the source
ReturnClone(t) ==
    /\ At(t, "as_return")
    /\ th[t].op = "clone_bytes"
    /\ LET ptr == th[t].new_space
       IN  /\ mem' = IF ptr = NULL THEN mem
                     ELSE [mem EXCEPT ![ptr].data =
                              memcpy(@, th[t].to_clone, th[t].bytes)]
           /\ aret' = Returns(t, NULL, ptr, 0)
           /\ th' = Done(t, th[t].own \cup ({ptr} \ {NULL}))
    /\ acc' = NoAcc
    /\ UNCHANGED <<allocations, mutex, dhvars, tvars>>

\* reallocate, line 221
ReLock(t) == At(t, "re_lock") /\ Lock(t, "reallocate", "as_malloc")

\* mutant: nothing is copied into the new space
ReCopy_no_copy(t) ==
    /\ At(t, "as_return")
    /\ th[t].op = "reallocate"
    /\ th' = Goto(t, IF th[t].new_space = NULL THEN "re_fail_unlock" ELSE "re_unlock")
    /\ acc' = NoAcc
    /\ aret' = NoAret
    /\ UNCHANGED <<allocations, mutex, mem, dhvars, tvars>>

\* reallocate, lines 226-235: no new space, or the copy of the smaller size
ReCopy(t) ==
    /\ At(t, "as_return")
    /\ th[t].op = "reallocate"
    /\ LET new_space == th[t].new_space
           old == th[t].old
       IN  IF new_space = NULL
           THEN /\ mem' = mem
                /\ th' = Goto(t, "re_fail_unlock")
           ELSE /\ mem' = [mem EXCEPT ![new_space].data =
                              memcpy(@, mem[old].data,
                                     Min(mem[old].size_of_memory, th[t].bytes))]
                /\ th' = Goto(t, "re_unlock")
    /\ acc' = NoAcc
    /\ aret' = NoAret
    /\ UNCHANGED <<allocations, mutex, dhvars, tvars>>

\* mutant: after a failed allocation reallocate returns with old untouched
ReUnlock_keeps_old(t) ==
    /\ Running
    /\ th[t].pc \in {"re_fail_unlock", "re_unlock"}
    /\ mutex' = NoThread
    /\ IF th[t].pc = "re_fail_unlock"
       THEN /\ th' = Done(t, th[t].own)
            /\ aret' = Returns(t, th[t].old, NULL, 0)
       ELSE /\ th' = [th EXCEPT ![t].pc = "fp_lock", ![t].pointer = th[t].old]
            /\ aret' = NoAret
    /\ acc' = NoAcc
    /\ UNCHANGED <<allocations, mem, dhvars, tvars>>

\* reallocate, lines 228-229 and 236-237: unlock, then free_pointer(old)
ReUnlock(t) ==
    /\ Running
    /\ th[t].pc \in {"re_fail_unlock", "re_unlock"}
    /\ mutex' = NoThread
    /\ th' = [th EXCEPT ![t].pc = "fp_lock", ![t].pointer = th[t].old]
    /\ acc' = NoAcc
    /\ aret' = NoAret
    /\ UNCHANGED <<allocations, mem, dhvars, tvars>>

\* free_pointer, line 185
FpLock(t) == At(t, "fp_lock") /\ Lock(t, "free_pointer", "fp_unlink")

\* mutant: free_pointer leaves the head as it is
HeadAfterUnlink_kept(b) == allocations

\* free_pointer, lines 193-197: the head after record b has left the list
HeadAfterUnlink(b) == IF mem[b].newer = NULL THEN mem[b].older ELSE allocations

\* the assertions of free_pointer (lines 190, 195, 200) on record b
FpAsserts(b) ==
    /\ mem[b].older # NULL => mem[mem[b].older].newer = b
    /\ mem[b].newer = NULL => b = allocations
    /\ mem[b].newer # NULL => mem[mem[b].newer].older = b

\* free_pointer, lines 186-202: the record leaves the list
FpUnlink(t) ==
    /\ At(t, "fp_unlink")
    /\ LET b == th[t].pointer
           older == mem[b].older
           newer == mem[b].newer
       IN  IF ~FpAsserts(b)
           THEN /\ th' = Goto(t, "aborted")
                /\ UNCHANGED <<allocations, mem>>
           ELSE /\ mem' = [x \in Blocks |->
                             IF older # NULL /\ x = older
                             THEN [mem[x] EXCEPT !.newer = newer]
                             ELSE IF newer # NULL /\ x = newer
                                  THEN [mem[x] EXCEPT !.older = older]
                                  ELSE mem[x]]
                /\ allocations' = HeadAfterUnlink(b)
                /\ th' = Goto(t, "fp_unlock")
    /\ acc' = Touch(t, "free_pointer",
                    {"older", "newer"}
                    \cup (IF mem[th[t].pointer].newer = NULL
                          THEN {"allocations"} ELSE {}))
    /\ aret' = NoAret
    /\ UNCHANGED <<mutex, dhvars, tvars>>

\* free_pointer, line 203
FpUnlock(t) == At(t, "fp_unlock") /\ Unlock(t, "free_pointer", "fp_free")

\* free_pointer, line 204: free, and the return of free_pointer or of the
\* reallocate that called it (lines 230, 239)
FpFree(t) ==
    /\ At(t, "fp_free")
    /\ mem' = [mem EXCEPT ![th[t].pointer] = NoBlock]
    /\ LET ptr == IF th[t].op = "reallocate" THEN th[t].new_space ELSE NULL
       IN  /\ aret' = Returns(t, th[t].pointer, ptr, 0)
           /\ th' = Done(t, (th[t].own \ {th[t].pointer}) \cup ({ptr} \ {NULL}))
    /\ acc' = NoAcc
    /\ UNCHANGED <<allocations, mutex, dhvars, tvars>>

\* several threads calling the leak-tracking allocator
NextAlloc ==
    \E t \in Threads :
        \/ Allocate(t)
        \/ AllocateAsChunk(t)
        \/ CloneBytes(t)
        \/ FreePointer(t)
        \/ Reallocate(t)
        \/ AsMalloc(t)
        \/ AsLock(t)
        \/ AsFill(t)
        \/ AsLink(t)
        \/ AsUnlock(t)
        \/ ReturnAllocate(t)
        \/ ReturnClone(t)
        \/ ReLock(t)
        \/ ReCopy(t)
        \/ ReUnlock(t)
        \/ FpLock(t)
        \/ FpUnlink(t)
        \/ FpUnlock(t)
        \/ FpFree(t)

SpecAlloc == Init /\ [][NextAlloc]_vars

(* ------------------ allocator.c: without LEAK_DETECTIVE --------------- *)

\* allocator_realloc(old, newsize) is realloc(old, newsize): `data` is what
\* realloc returns and `live` are the blocks the caller holds afterwards.
\* realloc that returns NULL leaves the old block allocated; realloc that
\* returns a block has released the old one; realloc(NULL, n) is malloc(n).
allocator_realloc(live, old, data) ==
    [data |-> data,
     live |-> IF data = NULL THEN live ELSE (live \ {old}) \cup {data}]

(* ------------------- allocator.c: report_memory_leaks ----------------- *)

\* the header of block b holds no value that was written: b is freed, or
\* malloc has returned it and allocate_special has not yet filled it in
Indeterminate(b) == ~mem[b].malloced \/ mem[b].filename = ""

\* one line of the report: "LEAK: n * File filename, Line line"
LeakLine(n, b) == [count |-> n, filename |-> mem[b].filename, line |-> mem[b].line]

\* mutant: a line is printed for every record, whatever the next record is
EndOfRun_each(pprev, p) == TRUE

\* line 287: the run of records ends at the oldest record, or where the
\* filename changes
EndOfRun(pprev, p) == p = NULL \/ mem[pprev].filename # mem[p].filename

\* report_memory_leaks, lines 275-277: p is read from the head, before the
\* lock of line 279
Report(t) ==
    /\ At(t, "idle")
    /\ th' = [th EXCEPT ![t] = [@ EXCEPT !.pc = "rp_lock",
                                       !.op = "report_memory_leaks",
                                       !.p = allocations, !.pprev = NULL,
                                       !.n = 0, !.lines = <<>>]]
    /\ acc' = [Touch(t, "report_memory_leaks", {"allocations"})
                  EXCEPT !.op = "report_memory_leaks"]
    /\ aret' = NoAret
    /\ UNCHANGED <<allocations, mutex, mem, dhvars, tvars>>

\* report_memory_leaks, line 279
RpLock(t) == At(t, "rp_lock") /\ Lock(t, "report_memory_leaks", "rp_walk")

\* report_memory_leaks, lines 281-295: one turn of the loop.  A record whose
\* header is indeterminate is read as undefined behaviour: the process
\* crashes, or the loop goes on with what the memory holds.
RpWalk(t) ==
    /\ At(t, "rp_walk")
    /\ LET p == th[t].p
           pprev == th[t].pprev
       IN  IF p = NULL
           THEN /\ th' = Goto(t, "rp_unlock")
                /\ acc' = NoAcc
           ELSE /\ acc' = [Touch(t, "report_memory_leaks", {"older", "newer"})
                              EXCEPT !.dangling = Indeterminate(p)]
                /\ \E crash \in {FALSE, Indeterminate(p)} :
                      IF crash \/ pprev # mem[p].newer
                      THEN th' = Goto(t, "aborted")
                      ELSE LET older == mem[p].older
                               n == th[t].n + 1
                           IN  th' = [th EXCEPT ![t].pprev = p,
                                                ![t].p = older,
                                                ![t].n = IF EndOfRun(p, older)
                                                         THEN 0 ELSE n,
                                                ![t].lines =
                                                    IF EndOfRun(p, older)
                                                    THEN Append(@, LeakLine(n, p))
                                                    ELSE @]
    /\ aret' = NoAret
    /\ UNCHANGED <<allocations, mutex, mem, dhvars, tvars>>

\* report_memory_leaks, lines 296-297: unlock and return; the lines printed
RpUnlock(t) ==
    /\ At(t, "rp_unlock")
    /\ mutex' = NoThread
    /\ aret' = [Returns(t, NULL, NULL, 0) EXCEPT !.lines = th[t].lines]
    /\ th' = Done(t, th[t].own)
    /\ acc' = NoAcc
    /\ UNCHANGED <<allocations, mem, dhvars, tvars>>

\* several threads calling allocate, free_pointer and report_memory_leaks
NextReport ==
    \E t \in Threads :
        \/ Allocate(t)
        \/ FreePointer(t)
        \/ Report(t)
        \/ AsMalloc(t)
        \/ AsLock(t)
        \/ AsFill(t)
        \/ AsLink(t)
        \/ AsUnlock(t)
        \/ ReturnAllocate(t)
        \/ FpLock(t)
        \/ FpUnlink(t)
        \/ FpUnlock(t)
        \/ FpFree(t)
        \/ RpLock(t)
        \/ RpWalk(t)
        \/ RpUnlock(t)

SpecReport == Init /\ [][NextReport]_vars

\* report_memory_leaks at shutdown: it is called when every other thread is
\* outside the allocator, and no thread calls the allocator until it returns
NoReport == \A u \in Threads : th[u].op # "report_memory_leaks"

OthersIdle(t) == \A u \in Threads \ {t} : th[u].pc = "idle"

QuietAllocate(t) == NoReport /\ Allocate(t)

QuietAllocateAsChunk(t) == NoReport /\ AllocateAsChunk(t)

QuietCloneBytes(t) == NoReport /\ CloneBytes(t)

QuietFreePointer(t) == NoReport /\ FreePointer(t)

QuietReallocate(t) == NoReport /\ Reallocate(t)

ReportAtShutdown(t) == NoReport /\ OthersIdle(t) /\ Report(t)

\* several threads calling the allocator, and a report when they are done
NextShutdown ==
    \E t \in Threads :
        \/ QuietAllocate(t)
        \/ QuietAllocateAsChunk(t)
        \/ QuietCloneBytes(t)
        \/ QuietFreePointer(t)
        \/ QuietReallocate(t)
        \/ ReportAtShutdown(t)
        \/ AsMalloc(t)
        \/ AsLock(t)
        \/ AsFill(t)
        \/ AsLink(t)
        \/ AsUnlock(t)
        \/ ReturnAllocate(t)
        \/ ReturnClone(t)
        \/ ReLock(t)
        \/ ReCopy(t)
        \/ ReUnlock(t)
        \/ FpLock(t)
        \/ FpUnlink(t)
        \/ FpUnlock(t)
        \/ FpFree(t)
        \/ RpLock(t)
        \/ RpWalk(t)
        \/ RpUnlock(t)

SpecShutdown == Init /\ [][NextShutdown]_vars

\* one thread, with calls of several sizes, from several call sites
SeqSizes == {1, 2}
SeqSites == {<<"a.c", 1>>, <<"a.c", 2>>, <<"b.c", 1>>}
SeqSources == {<<7>>}

SeqAllocate(t) == CallAllocate(t, "allocate", SeqSizes, SeqSites)

SeqAllocateAsChunk(t) == CallAllocate(t, "allocate_as_chunk", SeqSizes, SeqSites)

SeqCloneBytes(t) == CallCloneBytes(t, SeqSources, SeqSites)

SeqReallocate(t) == CallReallocate(t, SeqSizes, SeqSites)

NextSeq ==
    \/ SeqAllocate("t1")
    \/ SeqAllocateAsChunk("t1")
    \/ SeqCloneBytes("t1")
    \/ FreePointer("t1")
    \/ SeqReallocate("t1")
    \/ Report("t1")
    \/ AsMalloc("t1")
    \/ AsLock("t1")
    \/ AsFill("t1")
    \/ AsLink("t1")
    \/ AsUnlock("t1")
    \/ ReturnAllocate("t1")
    \/ ReturnClone("t1")
    \/ ReLock("t1")
    \/ ReCopy("t1")
    \/ ReUnlock("t1")
    \/ FpLock("t1")
    \/ FpUnlink("t1")
    \/ FpUnlock("t1")
    \/ FpFree("t1")
    \/ RpLock("t1")
    \/ RpWalk("t1")
    \/ RpUnlock("t1")

SpecSeq == Init /\ [][NextSeq]_vars

\* the calls a thread makes of the allocator
Calls(t) ==
    \/ Allocate(t)
    \/ AllocateAsChunk(t)
    \/ CloneBytes(t)
    \/ FreePointer(t)
    \/ Reallocate(t)
    \/ Report(t)

\* pthread_mutex_lock in thread t (lines 124, 185, 221, 279)
Locks(t) ==
    \/ AsLock(t)
    \/ FpLock(t)
    \/ ReLock(t)
    \/ RpLock(t)

\* every other step of thread t inside a call
Steps(t) ==
    \/ AsMalloc(t)
    \/ AsFill(t)
    \/ AsLink(t)
    \/ AsUnlock(t)
    \/ ReturnAllocate(t)
    \/ ReturnClone(t)
    \/ ReCopy(t)
    \/ ReUnlock(t)
    \/ FpUnlink(t)
    \/ FpUnlock(t)
    \/ FpFree(t)
    \/ RpWalk(t)
    \/ RpUnlock(t)

\* several threads calling the allocator under fair scheduling: a
\* thread inside a call is not held up for ever, and a thread waiting for
\* the mutex gets it when it is free again and again
NextFair == \E t \in Threads : Calls(t) \/ Locks(t) \/ Steps(t)

SpecFair ==
    /\ Init
    /\ [][NextFair]_vars
    /\ \A t \in Threads : WF_vars(Steps(t)) /\ SF_vars(Locks(t))

(* ---------------- exchange_test_asserts.c: the message listener ------- *)

\* the most payloads a message carries
MaxPayloads == 2

\* payload types and notify types of the messages (0 stands for none)
PayloadTypes == {1, 2}
NotifyTypes == {1}

\* the sequences over S of length n, and the payload lists of the messages
SeqsOfLen(S, n) == [1 .. n -> S]
PayloadLists == UNION {SeqsOfLen(PayloadTypes, n) : n \in 0 .. MaxPayloads}

\* a message_t: its payloads in order, and the types of its notify payloads
Messages == [payloads : PayloadLists, notifies : SUBSET NotifyTypes]

\* the listeners a test registers
Asserts ==
    [incoming : BOOLEAN, count : -1 .. MaxPayloads,
     payload : {0} \cup PayloadTypes, notify : {0} \cup NotifyTypes]

\* the payload enumerator loop, lines 72-78
PayloadCount(message) == Len(message.payloads)

\* message->get_payload and message->get_notify find a payload or not
get_payload(message, type) == \E i \in DOMAIN message.payloads : message.payloads[i] = type
get_notify(message, type) == type \in message.notifies

\* one assert_listener_msg: the condition it tests and what it found
assert_listener_msg(x, what) == [what |-> what, ok |-> x]

\* the assertions of lines 69-94 in order, each under its own condition
AssertsOf(this, message) ==
    (IF this.count >= 0
     THEN <<assert_listener_msg(this.count = PayloadCount(message), "count")>>
     ELSE <<>>)
    \o (IF this.payload # 0
        THEN <<assert_listener_msg(get_payload(message, this.payload), "payload")>>
        ELSE <<>>)
    \o (IF this.notify # 0
        THEN <<assert_listener_msg(get_notify(message, this.notify), "notify")>>
        ELSE <<>>)

\* the assertions up to the first that fails
RECURSIVE UpToFailure(_)
UpToFailure(as) ==
    IF as = <<>> THEN <<>>
    ELSE IF ~Head(as).ok THEN <<Head(as)>>
         ELSE <<Head(as)>> \o UpToFailure(Tail(as))

\* mutant: the listener stays registered after it has checked a message
exchange_test_asserts_message_stays(this, message, incoming, plain, fatal) ==
    LET as == AssertsOf(this, message)
        failure == \E i \in DOMAIN as : ~as[i].ok
    IN  IF plain /\ this.incoming = incoming /\ fatal /\ failure
        THEN [returned |-> FALSE, value |-> FALSE, asserts |-> UpToFailure(as)]
        ELSE [returned |-> TRUE, value |-> TRUE,
              asserts |-> IF plain /\ this.incoming = incoming THEN as ELSE <<>>]

\* exchange_test_asserts_message: TRUE for a message that is not plain or
\* goes the other way; else the assertions, and FALSE.  `fatal` tells
\* whether a failed assertion ends the test instead of returning.
exchange_test_asserts_message(this, message, incoming, plain, fatal) ==
    IF plain /\ this.incoming = incoming
    THEN LET as == AssertsOf(this, message)
             failure == \E i \in DOMAIN as : ~as[i].ok
         IN  IF fatal /\ failure
             THEN [returned |-> FALSE, value |-> FALSE, asserts |-> UpToFailure(as)]
             ELSE [returned |-> TRUE, value |-> FALSE, asserts |-> as]
    ELSE [returned |-> TRUE, value |-> TRUE, asserts |-> <<>>]

\* the test registers a message assert listener with the bus
AddListener ==
    /\ ~lsn.registered /\ ~lsn.ended
    /\ \E this \in Asserts :
          lsn' = [NoListener EXCEPT !.registered = TRUE, !.this = this,
                                    !.failed = lsn.failed]
    /\ UNCHANGED <<dhvars, avars, tss>>

\* the bus raises a message: it calls the listener if one is registered and
\* unregisters it when it returns FALSE
Message ==
    /\ ~lsn.ended
    /\ \E message \in Messages, incoming \in BOOLEAN, plain \in BOOLEAN,
          fatal \in BOOLEAN :
          IF ~lsn.registered
          THEN lsn' = [lsn EXCEPT !.last = NoCall]
          ELSE LET r == exchange_test_asserts_message(lsn.this, message,
                                                      incoming, plain, fatal)
                   match == plain /\ lsn.this.incoming = incoming
                   failure == \E i \in DOMAIN r.asserts : ~r.asserts[i].ok
               IN  lsn' = [lsn EXCEPT
                       !.registered = ~(r.returned /\ ~r.value),
                       !.skipped = @ \/ ~match,
                       !.checked = IF match /\ @ < 2 THEN @ + 1 ELSE @,
                       !.failed = @ \/ failure,
                       !.ended = ~r.returned,
                       !.last = [called |-> TRUE, plain |-> plain,
                                 incoming |-> incoming, returned |-> r.returned,
                                 value |-> r.value, asserts |-> r.asserts]]
    /\ UNCHANGED <<dhvars, avars, tss>>

\* a test that registers message assert listeners while messages go by
NextListener ==
    \/ AddListener
    \/ Message

SpecListener == Init /\ [][NextListener]_vars

(* ------------------- tpm_tss_tss2.c: create and destroy --------------- *)

\* thread of control in slot o is at label
TssAt(o, label) == tss[o].pc = label

\* initialize_context returns FALSE at `step`: create goes on to destroy
InitializeFails(this, step) == [this EXCEPT !.failed_at = step, !.pc = "finalize"]

\* finalize_context: a context is torn down or finalized when its pointer
\* is not NULL; the SYS buffer is freed, the TCTI buffer is left to
\* TeardownSocketTcti, which frees it or not (teardown_frees)
finalize_context(this, teardown_frees) ==
    LET t1 == IF this.tcti_context
              THEN [this EXCEPT
                       !.misused = IF this.tcti_state # "initialized"
                                   THEN @ \cup {"tcti"} ELSE @,
                       !.tcti_state = "torn_down",
                       !.tcti_buf = IF teardown_frees THEN "freed" ELSE @]
              ELSE this
    IN  IF t1.sys_context
        THEN [t1 EXCEPT
                 !.misused = IF t1.sys_state # "initialized"
                             THEN @ \cup {"sys"} ELSE @,
                 !.sys_state = "finalized",
                 !.sys_buf = "freed"]
        ELSE t1

\* tpm_tss_tss2_create, lines 366-376: INIT allocates the zeroed object
TssCreate(o) ==
    /\ tss[o].pc \in {"none", "returned", "destroyed"}
    /\ tss' = [tss EXCEPT ![o] = [NoTss EXCEPT !.pc = "size",
                                              !.this_mem = "allocated"]]
    /\ UNCHANGED <<dhvars, avars, lsn>>

\* initialize_context, lines 152-158: the size of the TCTI context
TssSize(o) ==
    /\ TssAt(o, "size")
    /\ \E success \in BOOLEAN :
          tss' = [tss EXCEPT ![o] = IF success THEN [@ EXCEPT !.pc = "malloc_tcti"]
                                    ELSE InitializeFails(@, "size")]
    /\ UNCHANGED <<dhvars, avars, lsn>>

\* initialize_context, line 161: malloc of the TCTI context, not checked
TssMallocTcti(o) ==
    /\ TssAt(o, "malloc_tcti")
    /\ \E success \in BOOLEAN :
          tss' = [tss EXCEPT ![o] =
                     [@ EXCEPT !.tcti_context = success,
                               !.tcti_buf = IF success THEN "allocated" ELSE @,
                               !.pc = "init_tcti"]]
    /\ UNCHANGED <<dhvars, avars, lsn>>

\* initialize_context, lines 164-171: InitSocketTcti on the context
TssInitTcti(o) ==
    /\ TssAt(o, "init_tcti")
    /\ \E success \in BOOLEAN :
          tss' = [tss EXCEPT ![o] =
                     IF success
                     THEN [@ EXCEPT !.tcti_state = IF tss[o].tcti_context
                                                   THEN "initialized" ELSE @,
                                    !.pc = "malloc_sys"]
                     ELSE InitializeFails(@, "tcti")]
    /\ UNCHANGED <<dhvars, avars, lsn>>

\* initialize_context, lines 174-177: malloc of the SYS context, not checked
TssMallocSys(o) ==
    /\ TssAt(o, "malloc_sys")
    /\ \E success \in BOOLEAN :
          tss' = [tss EXCEPT ![o] =
                     [@ EXCEPT !.sys_context = success,
                               !.sys_buf = IF success THEN "allocated" ELSE @,
                               !.pc = "init_sys"]]
    /\ UNCHANGED <<dhvars, avars, lsn>>

\* initialize_context, lines 180-187: Tss2_Sys_Initialize
TssInitSys(o) ==
    /\ TssAt(o, "init_sys")
    /\ \E success \in BOOLEAN :
          tss' = [tss EXCEPT ![o] =
                     IF success
                     THEN [@ EXCEPT !.sys_state = IF tss[o].sys_context
                                                  THEN "initialized" ELSE @,
                                    !.pc = "algs"]
                     ELSE InitializeFails(@, "sys")]
    /\ UNCHANGED <<dhvars, avars, lsn>>

\* initialize_context, line 190, and create, lines 378-386: the object is
\* returned when get_algs_capability succeeds
TssAlgs(o) ==
    /\ TssAt(o, "algs")
    /\ \E success \in BOOLEAN :
          tss' = [tss EXCEPT ![o] =
                     IF success THEN [@ EXCEPT !.pc = "live", !.result = "OBJECT"]
                     ELSE InitializeFails(@, "algs")]
    /\ UNCHANGED <<dhvars, avars, lsn>>

\* the caller destroys the object create returned
TssDestroy(o) ==
    /\ TssAt(o, "live")
    /\ tss' = [tss EXCEPT ![o].pc = "finalize"]
    /\ UNCHANGED <<dhvars, avars, lsn>>

\* destroy, line 355: finalize_context
TssFinalize(o) ==
    /\ TssAt(o, "finalize")
    /\ \E teardown_frees \in BOOLEAN :
          tss' = [tss EXCEPT ![o] =
                     [finalize_context(@, teardown_frees) EXCEPT !.pc = "free"]]
    /\ UNCHANGED <<dhvars, avars, lsn>>

\* destroy, line 356: free(this); create returns NULL (line 384) when it
\* was create that called destroy
TssFree(o) ==
    /\ TssAt(o, "free")
    /\ tss' = [tss EXCEPT ![o] =
                  [@ EXCEPT !.this_mem = "freed",
                            !.result = IF tss[o].failed_at # "" THEN "NULL" ELSE @,
                            !.pc = IF tss[o].failed_at # "" THEN "returned"
                                   ELSE "destroyed"]]
    /\ UNCHANGED <<dhvars, avars, lsn>>

\* TSS2 objects created and destroyed, every library call failing at will
NextTss ==
    \E o \in TssObjs :
        \/ TssCreate(o)
        \/ TssSize(o)
        \/ TssMallocTcti(o)
        \/ TssInitTcti(o)
        \/ TssMallocSys(o)
        \/ TssInitSys(o)
        \/ TssAlgs(o)
        \/ TssDestroy(o)
        \/ TssFinalize(o)
        \/ TssFree(o)

SpecTss == Init /\ [][NextTss]_vars

(* ----------------------- reference definitions ------------------------ *)

\* the integer a chunk stands for: sum of byte i times 256^(Len - i)
RECURSIVE RefSum(_, _)
RefSum(c, i) ==
    IF i > Len(c) THEN 0 ELSE c[i] * 256 ^ (Len(c) - i) + RefSum(c, i + 1)

RefValue(c) == RefSum(c, 1)

\* the w-byte big-endian encoding of v
RefEncode(v, w) == [i \in 1 .. w |-> (v \div 256 ^ (w - i)) % 256]

\* b^e mod m by e successive multiplications
RECURSIVE RefPow(_, _, _)
RefPow(b, e, m) ==
    IF e = 0 THEN 1 % m ELSE (RefPow(b, e - 1, m) * (b % m)) % m

\* the table entry of group g (g has one)
EntryOf(g) ==
    modulus_info_entries[CHOOSE i \in DOMAIN modulus_info_entries :
                             modulus_info_entries[i].group = g]

HasEntry(g) == \E i \in DOMAIN modulus_info_entries : modulus_info_entries[i].group = g

Getters == {"get_my_public_value", "get_other_public_value", "get_shared_secret"}

PeerGetters == {"get_other_public_value", "get_shared_secret"}

\* the object of the last call, and its history
This == obj[ret.obj]
Hist == hist[ret.obj]

(* ------------------------------ C1 ------------------------------------ *)

\* A and B are of the same group and each was last given the other's public value
Exchanged ==
    /\ life["A"] = "live" /\ life["B"] = "live"
    /\ obj["A"].dh_group_number = obj["B"].dh_group_number
    /\ hist["A"].fed /\ hist["B"].fed

\* C1: when two objects of the same group have each been given the other's
\* public value (in either order, with any private exponents), get_shared_secret
\* succeeds on both and returns byte-identical chunks.
C1_SharedSecretsAgree ==
    Exchanged =>
        LET a == get_shared_secret(obj["A"])
            b == get_shared_secret(obj["B"])
        IN  /\ a.status = "SUCCESS" /\ a.written
            /\ b.status = "SUCCESS" /\ b.written
            /\ a.chunk = b.chunk
            /\ ret.op = "get_shared_secret" =>
                  /\ ret.status = "SUCCESS"
                  /\ ret.chunk = get_shared_secret(obj[Peer(ret.obj)]).chunk

C1_Witness ==
    /\ Exchanged
    /\ ret.op = "get_shared_secret" /\ ret.status = "SUCCESS"
    /\ obj["A"].my_prime.v = 1 /\ obj["B"].my_prime.v = 2
    /\ ret.chunk = <<0, 4>>

(* ------------------------------ C2 ------------------------------------ *)

\* C2: as long as set_other_public_value has not been called on an object,
\* get_shared_secret and get_other_public_value return FAILED and write no
\* chunk, whatever else was called; a successful return of either implies an
\* earlier set_other_public_value on that object.
C2_NotReadyBeforeSet ==
    (ret.op \in PeerGetters /\ Hist.sets = 0) =>
        (ret.status = "FAILED" /\ ~ret.written)

C2_Witness ==
    /\ ret.op = "get_other_public_value" /\ ret.status = "FAILED"
    /\ Hist.sets = 0 /\ Hist.pub_calls = 2

(* ------------------------------ C3 ------------------------------------ *)

\* the peer chunk's value fits in w bytes
Fits(c, w) == RefValue(c) < 256 ^ w

\* C3: after set_other_public_value(c) has returned, get_shared_secret and
\* get_other_public_value both succeed, for every chunk c (any length and
\* any value, also one wider than modulus_length bytes).
C3_AlwaysSucceeds ==
    (ret.op \in PeerGetters /\ Hist.sets > 0) => ret.status = "SUCCESS"

\* what the code does: get_shared_secret succeeds for every chunk c, and
\* get_other_public_value succeeds exactly when the value of c fits in
\* modulus_length bytes (FAILED, no chunk, otherwise).
C3_SucceedsWhenFits ==
    (ret.op \in PeerGetters /\ Hist.sets > 0) =>
        /\ ret.op = "get_shared_secret" => (ret.status = "SUCCESS" /\ ret.written)
        /\ ret.op = "get_other_public_value" =>
              IF Fits(Hist.last_peer, This.modulus_length)
              THEN ret.status = "SUCCESS" /\ ret.written
              ELSE ret.status = "FAILED" /\ ~ret.written

C3_Witness ==
    /\ ret.op = "get_other_public_value" /\ ret.status = "FAILED"
    /\ Hist.sets > 0 /\ Hist.last_peer = <<1, 0, 0>>

(* ------------------------------ C4 ------------------------------------ *)

C4_SameChunk ==
    ret.op = "get_my_public_value" =>
        (ret.status = "SUCCESS" /\ ret.written /\ ret.chunk = Hist.first_pub)

C4_Frame ==
    ret'.op = "get_my_public_value" =>
        /\ obj'[ret'.obj].shared_secret = obj[ret'.obj].shared_secret
        /\ obj'[ret'.obj].other_public_value = obj[ret'.obj].other_public_value
        /\ obj'[ret'.obj].shared_secret_is_computed
               = obj[ret'.obj].shared_secret_is_computed

\* C4: every get_my_public_value call on an object returns the chunk the
\* first call returned, and no get_my_public_value call changes
\* shared_secret, other_public_value or shared_secret_is_computed.
C4_PublicValueIdempotent == [](C4_SameChunk) /\ [][C4_Frame]_vars

C4_Witness ==
    /\ ret.op = "get_my_public_value" /\ Hist.pub_calls = 2 /\ Hist.sets > 0
    /\ This.my_prime.v = 25 /\ ~Hist.pub_after_set

(* ------------------------------ C5 ------------------------------------ *)

\* the object as create returns it for the group and exponent of `this`
AsCreated(this) ==
    diffie_hellman_create(this.dh_group_number, TRUE, TRUE, TRUE, this.my_prime.v).this

\* C5: the chunk get_my_public_value returns is the one it returns on a
\* freshly created object of the same group and private exponent, whether
\* or not set_other_public_value was called before, for every peer value.
C5_PublicIndependentOfPeer ==
    ret.op = "get_my_public_value" =>
        /\ ret.status = get_my_public_value(AsCreated(This)).status
        /\ ret.chunk = get_my_public_value(AsCreated(This)).chunk

C5_Witness ==
    /\ ret.op = "get_my_public_value" /\ ret.status = "SUCCESS"
    /\ Hist.pub_after_set /\ Hist.pub_calls = 1
    /\ Hist.last_peer = <<0, 0, 3>> /\ This.my_prime.v = 2

(* ------------------------------ C6 ------------------------------------ *)

\* C6: every chunk a getter returns has exactly the modulus_length of the
\* object's group in the table, for every value (0 and 1 included), and a
\* getter writes a chunk exactly when it returns SUCCESS.
C6_FixedWidth ==
    ret.op \in Getters =>
        /\ ret.written <=> ret.status = "SUCCESS"
        /\ ret.written =>
              /\ Len(ret.chunk) = EntryOf(This.dh_group_number).modulus_length
              /\ Len(ret.chunk) = This.modulus_length

C6_Witness ==
    /\ ret.op = "get_shared_secret" /\ ret.written
    /\ ret.chunk = <<0, 0>> /\ This.my_prime.v > 0

(* ------------------------------ C7 ------------------------------------ *)

RefModulus(this) == RefValue(EntryOf(this.dh_group_number).modulus)

RefWidth(this) == Len(EntryOf(this.dh_group_number).modulus)

\* C7: get_my_public_value returns the encoding of generator^exponent mod
\* modulus, and after set_other_public_value(c) get_shared_secret returns
\* the encoding of value(c)^exponent mod modulus, against a reference
\* exponentiation and the table's modulus and generator.
C7_ValuesCorrect ==
    /\ ret.op = "get_my_public_value" =>
          /\ ret.status = "SUCCESS"
          /\ ret.chunk = RefEncode(RefPow(EntryOf(This.dh_group_number).generator,
                                          This.my_prime.v, RefModulus(This)),
                                   RefWidth(This))
    /\ (ret.op = "get_shared_secret" /\ Hist.sets > 0) =>
          /\ ret.status = "SUCCESS"
          /\ ret.chunk = RefEncode(RefPow(RefValue(Hist.last_peer),
                                          This.my_prime.v, RefModulus(This)),
                                   RefWidth(This))

C7_Witness ==
    /\ ret.op = "get_shared_secret" /\ ret.status = "SUCCESS"
    /\ This.my_prime.v = 25 /\ Hist.last_peer = <<0, 0, 3>>
    /\ This.dh_group_number = MODP_1024_BIT /\ Hist.pub_calls > 0

(* ------------------------------ C8 ------------------------------------ *)

\* C8: in every state of a created object, shared_secret_is_computed holds
\* exactly when a peer value has been set, and then other_public_value and
\* shared_secret are both initialised (never one without the other).
C8_ComputedIffPeerSet ==
    \A o \in Objs : life[o] = "live" =>
        /\ obj[o].shared_secret_is_computed <=> hist[o].sets > 0
        /\ obj[o].other_public_value.init <=> hist[o].sets > 0
        /\ obj[o].shared_secret.init <=> hist[o].sets > 0

C8_Witness ==
    /\ ret.op = "set_other_public_value" /\ life[ret.obj] = "live"
    /\ This.shared_secret_is_computed /\ Hist.sets = 1 /\ Hist.pub_calls = 0

(* ------------------------------ C9 ------------------------------------ *)

\* the last call was diffie_hellman_create with a 16-bit identifier that
\* has no table entry
CreateUnknownGroup(r) ==
    /\ r.op = "diffie_hellman_create"
    /\ r.group \in 0 .. 65535
    /\ ~HasEntry(r.group)

\* nothing is left of the create attempt that made the step
NoResidue ==
    /\ ret'.status = "NULL"
    /\ life'[ret'.obj] = "none"
    /\ obj'[ret'.obj] = Blank
    /\ heap' = heap
    /\ helpers' = helpers
    /\ lost' = lost

C10_PrimeFailureLeavesNothing ==
    [][(ret'.op = "diffie_hellman_create" /\ ret'.cause = "init_prime")
          => NoResidue]_vars

(* ------------------------------- C11 ---------------------------------- *)

\* the values of the object that hold an initialised big integer
Initialised(this) == {f \in MpzFields : this[f].init}

\* a step that destroys the live object ret'.obj
DestroyStep ==
    /\ ret'.op = "destroy"
    /\ life[ret'.obj] = "live"
    /\ life'[ret'.obj] = "destroyed"

\* C11: destroy releases my_public_value only if it was initialised, and
\* other_public_value and shared_secret only if they were initialised; it
\* never releases a big integer that was never initialised, whatever calls
\* came between create and destroy.
C11_ReleasesOnlyInitialised ==
    [][DestroyStep =>
          /\ destroy(obj[ret'.obj]).cleared \subseteq Initialised(obj[ret'.obj])
          /\ ~ret'.ub]_vars

\* destroy has run on an object whose public value, peer value and shared
\* secret were never initialised
C11_Witness ==
    /\ ret.op = "destroy"
    /\ life[ret.obj] = "destroyed"
    /\ Hist.sets = 0
    /\ Hist.pub_runs = 0
    /\ ~ret.ub

(* ------------------------------- C12 ---------------------------------- *)

\* C12: after destroy every big integer that was initialised during the
\* object's lifetime has been released, none is leaked, whatever calls came
\* between create and destroy (zero, one or several set_other_public_value
\* calls, any number of getter calls).
C12_NothingLeaked ==
    [][DestroyStep => lost' = lost]_vars

\* what the code does: nothing is leaked when set_other_public_value was
\* called at most once
C12_NothingLeakedUpToOneSet ==
    [][DestroyStep /\ hist[ret'.obj].sets <= 1 => lost' = lost]_vars

(* ------------------------------- C13 ---------------------------------- *)

\* the shared secret chunk the object must return for its last peer chunk
RefSecret(this, c) ==
    RefEncode(RefPow(RefValue(c), this.my_prime.v, RefModulus(this)),
              RefWidth(this))

\* the second set_other_public_value(c2) succeeds and get_shared_secret
\* returns value(c2)^private_exponent mod modulus, nothing of the first
SecondSetRecomputes ==
    /\ (ret.op = "set_other_public_value" /\ Hist.sets >= 2) =>
          ret.status = "SUCCESS"
    /\ (ret.op = "get_shared_secret" /\ Hist.sets >= 2) =>
          /\ ret.status = "SUCCESS"
          /\ ret.chunk = RefSecret(This, Hist.last_peer)

\* get_other_public_value returns the value of c2
SecondPeerReturned ==
    /\ ret.status = "SUCCESS"
    /\ ret.written
    /\ RefValue(ret.chunk) = RefValue(Hist.last_peer)

\* C13: a second call set_other_public_value(c2) on the same object
\* succeeds and recomputes: afterwards get_other_public_value returns the
\* value of c2, get_shared_secret returns value(c2)^private_exponent mod
\* modulus, and the secret of the first peer value is no longer observable
\* through any operation.
C13_SecondSetRecomputes ==
    /\ SecondSetRecomputes
    /\ (ret.op = "get_other_public_value" /\ Hist.sets >= 2) =>
          SecondPeerReturned

\* what the code does: the same, but get_other_public_value returns the
\* value of c2 only when it fits in modulus_length bytes
C13_RecomputesWhenFits ==
    /\ SecondSetRecomputes
    /\ (ret.op = "get_other_public_value" /\ Hist.sets >= 2) =>
          IF Fits(Hist.last_peer, This.modulus_length)
          THEN SecondPeerReturned
          ELSE ret.status = "FAILED" /\ ~ret.written

(* ------------------------------- C14 ---------------------------------- *)

\* a set_other_public_value call whose decode of the peer chunk failed
DecodeFailedStep ==
    /\ ret'.op = "set_other_public_value"
    /\ ret'.cause = "chunk_to_mpz"

\* C14: when decoding the peer chunk fails inside set_other_public_value,
\* the call returns a failure result and the object stays in its previous
\* state: shared_secret_is_computed is unchanged and the getters expose no
\* value derived from the failed decode (shared_secret and
\* other_public_value are what they were).
C14_DecodeFailureReported ==
    [][DecodeFailedStep =>
          /\ ret'.status # "SUCCESS"
          /\ obj'[ret'.obj].shared_secret_is_computed
                 = obj[ret'.obj].shared_secret_is_computed
          /\ obj'[ret'.obj].shared_secret = obj[ret'.obj].shared_secret
          /\ obj'[ret'.obj].other_public_value
                 = obj[ret'.obj].other_public_value]_vars

\* what the code does: the call returns SUCCESS and marks the shared secret
\* as computed
C14_DecodeFailureIgnored ==
    [][DecodeFailedStep =>
          /\ ret'.status = "SUCCESS"
          /\ obj'[ret'.obj].shared_secret_is_computed
          /\ obj'[ret'.obj].shared_secret.init]_vars

(* ------------------------------- C15 ---------------------------------- *)

\* a get_shared_secret or get_other_public_value call that returns FAILED
FailedGetterStep ==
    /\ ret'.op \in PeerGetters
    /\ ret'.status = "FAILED"

\* the getter named op, called on this
GetterOf(op, this) ==
    IF op = "get_shared_secret" THEN get_shared_secret(this)
    ELSE get_other_public_value(this)

\* the failed call changed nothing but the record of the last call
FailedGetterFrame ==
    /\ obj' = obj
    /\ UNCHANGED <<life, heap, helpers, lost, attempts, hist>>
    /\ ~ret'.written

\* C15: a get_shared_secret or get_other_public_value call that returns
\* FAILED leaves every field of the object unchanged, so that a later
\* set_other_public_value followed by the same getter succeeds.
C15_FailedGetterRecoverable ==
    [][FailedGetterStep =>
          /\ FailedGetterFrame
          /\ \A c \in PeerChunks :
                GetterOf(ret'.op, set_other_public_value(obj'[ret'.obj], c).this).status
                    = "SUCCESS"]_vars

\* what the code does: the failed call changes nothing; a later
\* set_other_public_value(c) followed by get_shared_secret succeeds for
\* every c, followed by get_other_public_value it succeeds exactly when the
\* value of c fits in modulus_length bytes
C15_FailedGetterFrame ==
    [][FailedGetterStep =>
          /\ FailedGetterFrame
          /\ \A c \in PeerChunks :
                LET t == set_other_public_value(obj'[ret'.obj], c).this
                IN  /\ get_shared_secret(t).status = "SUCCESS"
                    /\ get_other_public_value(t).status = "SUCCESS"
                           <=> Fits(c, t.modulus_length)]_vars

(* ------------------------------- C16 ---------------------------------- *)

\* slot o holds the same object before and after the step
StaysLive(o) == life[o] = "live" /\ life'[o] = "live"

\* C16: the object's state only moves forward: once
\* my_public_value_is_computed is TRUE it stays TRUE, and once
\* shared_secret_is_computed is TRUE it stays TRUE, under every operation
\* until destroy; no operation returns the object to Ready.
C16_FlagsOnlyRise ==
    [][\A o \in Objs : StaysLive(o) =>
          /\ obj[o].my_public_value_is_computed
                 => obj'[o].my_public_value_is_computed
          /\ obj[o].shared_secret_is_computed
                 => obj'[o].shared_secret_is_computed]_vars

\* both flags are TRUE and set_other_public_value has just run a second time
C16_Witness ==
    /\ ret.op = "set_other_public_value"
    /\ life[ret.obj] = "live"
    /\ Hist.sets = 2
    /\ Hist.pub_calls > 0
    /\ This.my_public_value_is_computed
    /\ This.shared_secret_is_computed

(* ------------------------------- C17 ---------------------------------- *)

\* the bit size each group identifier names
BitsOf(g) ==
    CASE g = MODP_768_BIT -> 768
      [] g = MODP_1024_BIT -> 1024
      [] g = MODP_1536_BIT -> 1536
      [] g = MODP_2048_BIT -> 2048
      [] g = MODP_3072_BIT -> 3072
      [] g = MODP_4096_BIT -> 4096
      [] g = MODP_6144_BIT -> 6144
      [] g = MODP_8192_BIT -> 8192
      [] OTHER -> 0

\* the table has eight entries, one for each of the eight groups
OneEntryPerGroup ==
    /\ Len(modulus_info_entries_sizeof) = Cardinality(ModpGroups)
    /\ Cardinality(ModpGroups) = 8
    /\ \A g \in ModpGroups :
          Cardinality({i \in DOMAIN modulus_info_entries_sizeof :
                          modulus_info_entries_sizeof[i].group = g}) = 1

\* C17: the group table has exactly one entry for each of the eight MODP
\* groups (768, 1024, 1536, 2048, 3072, 4096, 6144, 8192 bits); for each,
\* the modulus_length set by set_modulus equals the bit size divided by 8
\* and the generator equals 2.
C17_TableMatchesGroups ==
    /\ OneEntryPerGroup
    /\ (ret.op = "diffie_hellman_create" /\ ret.group \in ModpGroups) =>
          ret.cause # "set_modulus"
    /\ \A o \in Objs : life[o] = "live" =>
          /\ obj[o].dh_group_number \in ModpGroups
          /\ obj[o].modulus_length * 8 = BitsOf(obj[o].dh_group_number)
          /\ obj[o].generator = 2

\* set_modulus has resolved the 8192-bit group to 1024 bytes
C17_Witness ==
    /\ ret.op = "diffie_hellman_create"
    /\ ret.group = MODP_8192_BIT
    /\ life[ret.obj] = "live"
    /\ This.modulus_length = 1024
    /\ This.generator = 2

(* ------------------------------- C18 ---------------------------------- *)

\* C18: group resolution yields NotFound, and create fails, for every group
\* identifier passed to diffie_hellman_create that is not one of the eight
\* table identifiers, also for one that equals a table identifier only
\* after reduction modulo 2^16.
C18_UnknownGroupRejected ==
    (ret.op = "diffie_hellman_create" /\ ~HasEntry(ret.group)) =>
        /\ ret.status = "NULL"
        /\ ret.cause \in {"allocator_alloc_thing", "gmp_helper_create", "set_modulus"}

\* what the code does: the identifier is looked up after truncation to 16
\* bits
C18_TruncatedGroupResolved ==
    (ret.op = "diffie_hellman_create"
        /\ ret.cause \notin {"allocator_alloc_thing", "gmp_helper_create"}) =>
        (ret.cause = "set_modulus" <=> ~HasEntry(ret.group % 65536))

(* ------------------------------- C19 ---------------------------------- *)

\* C19: diffie_hellman_create reports its failure causes as distinct
\* results: the result of a failed private-exponent generation differs from
\* the result of an unsupported group, so the caller can tell them apart.
C19_FailuresDistinct ==
    (ret.op = "diffie_hellman_create" /\ ret.cause = "init_prime") =>
        \A g \in GroupInputs, x \in Exponents :
            LET c == diffie_hellman_create(g, TRUE, TRUE, TRUE, x)
            IN  c.cause = "set_modulus" => CreateResult(c) # ret.status

\* what the code does: every failure is the same NULL
C19_FailuresAllNull ==
    (ret.op = "diffie_hellman_create" /\ ret.cause # "") => ret.status = "NULL"

(* ------------------------------- C20 ---------------------------------- *)

\* the public functions of the leak-tracking allocator that change the list
ListCalls == {"allocate", "allocate_as_chunk", "clone_bytes", "free_pointer",
              "reallocate"}

\* C20: under every interleaving of allocate, allocate_as_chunk,
\* clone_bytes, free_pointer and reallocate calls of several threads on
\* distinct blocks, every read or write of the list head and of a record's
\* older and newer links happens while the calling thread holds the
\* allocator mutex.
C20_ListTouchedUnderMutex ==
    (acc.op \in ListCalls /\ acc.touched # {}) => acc.held

\* free_pointer has just unlinked the head record while another thread, in
\* allocate_special, waits for the mutex
C20_Witness ==
    /\ acc.op = "free_pointer"
    /\ acc.fn = "free_pointer"
    /\ "allocations" \in acc.touched
    /\ acc.held
    /\ \E t \in Threads : th[t].pc = "as_lock"

(* ------------------------------- C21 ---------------------------------- *)

\* report_memory_leaks touches the list only while it holds the mutex
ReportUnderMutex ==
    (acc.op = "report_memory_leaks" /\ acc.touched # {}) => acc.held

\* report_memory_leaks visits no record that has been freed
ReportVisitsLive ==
    acc.op = "report_memory_leaks" => ~acc.dangling

\* the assertion pprev == p->newer of report_memory_leaks has not failed
ReportAssertHolds ==
    \A t \in Threads :
        th[t].op = "report_memory_leaks" => th[t].pc # "aborted"

\* C21: report_memory_leaks reads the list head and walks every record only
\* while holding the allocator mutex, so that, running concurrently with
\* allocate and free_pointer on other threads, it never visits a record that
\* has been unlinked and freed, and its assertion pprev == p->newer never
\* fails.
C21_ReportUnderMutex ==
    /\ ReportUnderMutex
    /\ ReportVisitsLive
    /\ ReportAssertHolds

\* what the code does: the walk (the older and newer links) is under the
\* mutex, the read of the head is not
C21_WalkUnderMutex ==
    acc.op = "report_memory_leaks" =>
        /\ acc.touched \cap {"older", "newer"} # {} => acc.held
        /\ "allocations" \in acc.touched => ~acc.held

(* ------------------------------- C22 ---------------------------------- *)

\* the records reached from b through older links, at most k of them
RECURSIVE OlderChain(_, _)
OlderChain(b, k) ==
    IF b = NULL \/ k = 0 THEN <<>>
    ELSE <<b>> \o OlderChain(mem[b].older, k - 1)

\* the tracking list, newest record first
TrackingList == OlderChain(allocations, MaxBlocks + 1)

\* the blocks that were returned to a caller and not freed since
LiveBlocks == UNION {th[t].own : t \in Threads}

\* every allocator call has returned
Quiescent == \A t \in Threads : th[t].pc = "idle"

RECURSIVE SumCounts(_)
SumCounts(lines) ==
    IF lines = <<>> THEN 0 ELSE Head(lines).count + SumCounts(Tail(lines))

\* C22: after any sequence, and any interleaving across threads, of
\* completed allocator operations, the records reachable from the list head
\* through older links are exactly the blocks that were allocated and not
\* yet freed, each once; a leak report run then accounts for exactly that
\* many blocks (the counts of its lines sum to the number of live blocks).
C22_ListIsLiveBlocks ==
    /\ Quiescent =>
          /\ {TrackingList[i] : i \in DOMAIN TrackingList} = LiveBlocks
          /\ Len(TrackingList) = Cardinality(LiveBlocks)
          /\ \A b \in Blocks : mem[b].malloced <=> b \in LiveBlocks
    /\ aret.op = "report_memory_leaks" =>
          SumCounts(aret.lines) = Cardinality(LiveBlocks)

\* a report has returned after two threads have allocated a block each
C22_Witness ==
    /\ aret.op = "report_memory_leaks"
    /\ \A t \in Threads : Cardinality(th[t].own) = 1
    /\ SumCounts(aret.lines) = 2

(* ------------------------------- C23 ---------------------------------- *)

\* the call site recorded in block b
SiteOf(b) == <<mem[b].filename, mem[b].line>>

\* the live blocks allocated at call site s
LiveAt(s) == {b \in LiveBlocks : SiteOf(b) = s}

\* the lines of a report that name call site s
LinesAt(lines, s) ==
    {i \in DOMAIN lines : <<lines[i].filename, lines[i].line>> = s}

\* C23: the leak report aggregates per call-site: for every call-site (file
\* and line) that has live allocations, the report contains one line whose
\* count equals the number of live allocations made at that call-site,
\* whatever the order in which the allocations were made.
C23_OneLinePerCallSite ==
    aret.op = "report_memory_leaks" =>
        \A b \in LiveBlocks :
            /\ Cardinality(LinesAt(aret.lines, SiteOf(b))) = 1
            /\ \A i \in LinesAt(aret.lines, SiteOf(b)) :
                  aret.lines[i].count = Cardinality(LiveAt(SiteOf(b)))

\* the report lines of the list L: one line for each run of neighbouring
\* records with the same filename, with the length of the run and the line
\* number of the oldest record of the run
RECURSIVE RunsOf(_, _)
RunsOf(L, n) ==
    IF L = <<>> THEN <<>>
    ELSE IF Len(L) = 1 \/ mem[L[2]].filename # mem[L[1]].filename
         THEN <<LeakLine(n + 1, L[1])>> \o RunsOf(Tail(L), 0)
         ELSE RunsOf(Tail(L), n + 1)

\* what the code does: one line for each run of neighbouring records of
\* the same file, whatever their line numbers
C23_OneLinePerRun ==
    aret.op = "report_memory_leaks" => aret.lines = RunsOf(TrackingList, 0)

(* ------------------------------- C24 ---------------------------------- *)

\* compute_public_value has run at most once on every object since its creation
C24_AtMostOneRun == \A o \in Objs : hist[o].pub_runs <= 1

\* a get_my_public_value call on an object whose public value is computed
\* leaves the object as it is and returns the encoding of the cached value
C24_Reencodes ==
    (ret'.op = "get_my_public_value" /\ obj[ret'.obj].my_public_value_is_computed) =>
        /\ obj'[ret'.obj] = obj[ret'.obj]
        /\ ret'.chunk = mpz_bytes(obj[ret'.obj].my_public_value.v,
                                  obj[ret'.obj].modulus_length)

\* C24: over the whole lifetime of an object and for every sequence of
\* operations, compute_public_value (which initializes my_public_value) runs
\* at most once; later get_my_public_value calls only re-encode the cached
\* value.
C24_ComputedOnce == [](C24_AtMostOneRun) /\ [][C24_Reencodes]_vars

C24_Witness ==
    /\ ret.op = "get_my_public_value" /\ Hist.pub_calls = 2 /\ Hist.pub_runs = 1
    /\ This.my_public_value_is_computed /\ This.leak = 0
    /\ This.shared_secret_is_computed /\ This.my_prime.v = 50

(* ------------------------------- C25 ---------------------------------- *)

\* x, once initialised, is a residue of the modulus of this
Reduced(this, x) == x.init => (0 <= x.v /\ x.v < this.modulus.v)

\* C25: my_public_value and shared_secret are always in 0 .. modulus-1, for
\* every private exponent and every peer value, so encoding them to
\* modulus_length bytes does not overflow the width: get_my_public_value
\* never fails, and get_shared_secret never fails once the secret is computed.
C25_ResiduesFit ==
    /\ \A o \in Objs : life[o] = "live" =>
          /\ Reduced(obj[o], obj[o].my_public_value)
          /\ Reduced(obj[o], obj[o].shared_secret)
          /\ get_my_public_value(obj[o]).status = "SUCCESS"
          /\ obj[o].shared_secret_is_computed =>
                get_shared_secret(obj[o]).status = "SUCCESS"
    /\ ret.op = "get_my_public_value" => (ret.status = "SUCCESS" /\ ret.written)
    /\ (ret.op = "get_shared_secret" /\ This.shared_secret_is_computed) =>
          (ret.status = "SUCCESS" /\ ret.written)

\* a peer value wider than the modulus, reduced by the exponentiation
C25_Witness ==
    /\ ret.op = "get_shared_secret" /\ ret.status = "SUCCESS"
    /\ Hist.last_peer = <<1, 0, 0>> /\ This.my_prime.v = 1
    /\ This.other_public_value.v >= This.modulus.v
    /\ This.shared_secret.v = This.other_public_value.v % This.modulus.v
    /\ This.my_public_value.init

(* ------------------------------- C26 ---------------------------------- *)

\* what create fixes for the lifetime of the object
Parameters(this) ==
    <<this.my_prime, this.modulus, this.modulus_length, this.generator,
      this.dh_group_number>>

\* C26: after a successful create, no operation other than destroy changes
\* the private exponent (my_prime), the modulus, modulus_length, the
\* generator or the group number: get_my_public_value,
\* set_other_public_value, get_other_public_value and get_shared_secret
\* leave them unchanged.
C26_ParametersFixed ==
    [][\A o \in Objs : StaysLive(o) =>
          Parameters(obj'[o]) = Parameters(obj[o])]_vars

\* an object that has been through all four operations
C26_Witness ==
    /\ ret.op = "get_other_public_value" /\ ret.status = "SUCCESS"
    /\ life[ret.obj] = "live"
    /\ Hist.sets = 2 /\ Hist.pub_calls = 2
    /\ This.dh_group_number = MODP_1024_BIT
    /\ This.my_prime = mpz_value(2)
    /\ This.modulus = mpz_value(chunk_to_mpz(group2_modulus))
    /\ This.modulus_length = 2 /\ This.generator = 2

(* ------------------------------- C27 ---------------------------------- *)

\* chunk c without its leading zero bytes
RECURSIVE Stripped(_)
Stripped(c) == IF c # <<>> /\ c[1] = 0 THEN Stripped(Tail(c)) ELSE c

\* C27: round trip of the peer value: for every chunk c whose integer value
\* fits in modulus_length bytes, set_other_public_value(c) followed by
\* get_other_public_value returns a modulus_length-byte chunk with the same
\* integer value as c: c itself when c has modulus_length bytes, c with
\* leading zeros added or removed otherwise.
C27_PeerRoundTrip ==
    (ret.op = "get_other_public_value" /\ Hist.sets > 0
        /\ Fits(Hist.last_peer, This.modulus_length)) =>
        /\ ret.status = "SUCCESS" /\ ret.written
        /\ Len(ret.chunk) = This.modulus_length
        /\ RefValue(ret.chunk) = RefValue(Hist.last_peer)
        /\ Stripped(ret.chunk) = Stripped(Hist.last_peer)
        /\ Len(Hist.last_peer) = This.modulus_length => ret.chunk = Hist.last_peer

\* a three-byte chunk comes back stripped to the two bytes of the modulus
C27_Witness ==
    /\ ret.op = "get_other_public_value" /\ ret.status = "SUCCESS"
    /\ Hist.last_peer = <<0, 0, 3>> /\ ret.chunk = <<0, 3>>
    /\ This.modulus_length = 2

\* a chunk of modulus_length bytes comes back as it is
C27_Identical ==
    /\ ret.op = "get_other_public_value" /\ ret.status = "SUCCESS"
    /\ Len(Hist.last_peer) = This.modulus_length /\ ret.chunk = Hist.last_peer
    /\ Hist.last_peer = <<1>>

\* a one-byte chunk comes back padded to the two bytes of the modulus
C27_Padded ==
    /\ ret.op = "get_other_public_value" /\ ret.status = "SUCCESS"
    /\ Hist.last_peer = <<1>> /\ ret.chunk = <<0, 1>>

(* ------------------------------- C28 ---------------------------------- *)

\* the records of the tracking list
Listed == {TrackingList[i] : i \in DOMAIN TrackingList}

\* the tracking list is a well-formed doubly linked list
WellFormed ==
    /\ allocations # NULL => mem[allocations].newer = NULL
    /\ Len(TrackingList) <= MaxBlocks
    /\ \A r \in Listed :
          /\ mem[r].malloced
          /\ mem[r].older # NULL => mem[mem[r].older].newer = r
          /\ mem[r].newer # NULL => mem[mem[r].newer].older = r
          /\ mem[r].newer = NULL => r = allocations

\* the assertion of report_memory_leaks (line 283) on a walk from the head
ReportAsserts ==
    \A i \in DOMAIN TrackingList :
        mem[TrackingList[i]].newer = (IF i = 1 THEN NULL ELSE TrackingList[i - 1])

\* C28: whenever the allocator mutex is free, the tracking list is a
\* well-formed doubly linked list (the head has newer = NULL, and the older
\* and newer links of every record mirror each other); hence the assertions
\* of free_pointer and report_memory_leaks hold for every sequence of
\* allocate, free_pointer and reallocate calls on live blocks.
C28_ListWellFormed ==
    /\ mutex = NoThread =>
          /\ WellFormed
          /\ ReportAsserts
          /\ \A r \in Listed : FpAsserts(r)
    /\ Running

\* the mutex is free between the two halves of a reallocate, with the old
\* and the new record both in the list
C28_Witness ==
    /\ mutex = NoThread
    /\ \E t \in Threads :
          /\ th[t].op = "reallocate" /\ th[t].pc = "fp_lock"
          /\ Listed = {th[t].old, th[t].new_space}
          /\ mem[th[t].old].newer = th[t].new_space

\* the list is well formed whenever the mutex is free, also while a report
\* runs beside the other calls
C28_WellFormedBesideReport == mutex = NoThread => WellFormed

(* ------------------------------- C29 ---------------------------------- *)

\* the labels at which a thread is about to call pthread_mutex_lock
LockLabels == {"as_lock", "fp_lock", "re_lock", "rp_lock"}

\* a thread that is about to take the mutex does not hold it, and a thread
\* outside the allocator does not hold it
MutexDiscipline ==
    \A t \in Threads :
        /\ th[t].pc \in LockLabels => mutex # t
        /\ th[t].pc = "idle" => mutex # t

\* the call thread t is in comes to an end: it returns, or the process is
\* aborted by a failed assertion
Terminates(t) == th[t].pc # "idle" ~> (th[t].pc = "idle" \/ ~Running)

ReallocateSucceeds(t) ==
    /\ th[t].op = "reallocate" /\ th[t].pc = "fp_free"
    /\ th'[t].pc = "idle"
    /\ aret'.op = "reallocate" /\ aret'.ptr # NULL

\* the records of the tracking list after the step
ListedAfter == Listed'

\* C30: a successful reallocate(old, n) returns a new block of n bytes whose
\* first min(old size, n) bytes are the old block's bytes and whose other
\* bytes are zero; afterwards the old block is not in the list, the new
\* block is in the list with size n and the call site of the reallocate,
\* and the number of live records is what it was before the call.
C30_ReallocateCopies ==
    [][\A t \in Threads : ReallocateSucceeds(t) =>
          LET old == th[t].old
              new == aret'.ptr
              n == th[t].bytes
              kept == Min(mem[old].size_of_memory, n)
          IN  /\ aret'.arg = old /\ new # old
              /\ Len(mem'[new].data) = n
              /\ \A i \in 1 .. n :
                    mem'[new].data[i] = IF i <= kept THEN mem[old].data[i] ELSE 0
              /\ old \notin ListedAfter /\ ~mem'[old].malloced
              /\ new \in ListedAfter
              /\ mem'[new].size_of_memory = n
              /\ mem'[new].filename = th[t].file /\ mem'[new].line = th[t].line
              /\ th'[t].own = (th[t].own \ {old}) \cup {new}
              /\ Cardinality(th'[t].own) = Cardinality(th[t].own)
              /\ Cardinality(ListedAfter) = Cardinality(th[t].own)]_vars

\* a one-byte block with a non-zero byte has grown to two bytes, under a
\* call site other than the one it was allocated at
C30_Witness ==
    /\ aret.op = "reallocate" /\ aret.ptr # NULL
    /\ mem[aret.ptr].data = <<7, 0>>
    /\ mem[aret.ptr].size_of_memory = 2
    /\ SiteOf(aret.ptr) = <<"b.c", 1>>
    /\ Listed = {aret.ptr} /\ th["t1"].own = {aret.ptr}

\* a two-byte block has shrunk to its first byte
C30_Shrunk ==
    /\ aret.op = "reallocate" /\ aret.ptr # NULL
    /\ mem[aret.ptr].data = <<7>> /\ th["t1"].own = {aret.ptr}
    /\ aret.ptr = 1 /\ aret.arg = 2

(* ------------------------------- C31 ---------------------------------- *)

\* the step in which a reallocate call of thread t on a block returns NULL
ReallocateFails(t) ==
    /\ th[t].op = "reallocate" /\ th[t].pc # "idle"
    /\ th'[t].pc = "idle"
    /\ aret'.op = "reallocate" /\ aret'.arg # NULL /\ aret'.ptr = NULL

\* C31: when the inner allocation fails, reallocate(old, n) returns NULL,
\* has released the mutex, and has freed and unlinked the old block: the
\* caller's old pointer is no longer valid and the number of live records
\* has decreased by one.
C31_FailedReallocateFreesOld ==
    [][\A t \in Threads : ReallocateFails(t) =>
          LET old == th[t].old
          IN  /\ aret'.arg = old
              /\ th[t].new_space = NULL
              /\ mutex' = NoThread
              /\ old \notin ListedAfter
              /\ ~mem'[old].malloced
              /\ th'[t].own = th[t].own \ {old}
              /\ Cardinality(th'[t].own) = Cardinality(th[t].own) - 1
              /\ Cardinality(ListedAfter) = Cardinality(th[t].own) - 1]_vars

\* reallocate has failed on one of two blocks; the other is still listed
C31_Witness ==
    /\ aret.op = "reallocate" /\ aret.arg = 1 /\ aret.ptr = NULL
    /\ mutex = NoThread
    /\ ~mem[1].malloced
    /\ Listed = {2} /\ th["t1"].own = {2}
    /\ th["t1"].pc = "idle"

(* ------------------------------- C32 ---------------------------------- *)

\* the step in which a reallocate call of thread t returns
ReallocateReturns(t) ==
    /\ aret'.op = "reallocate" /\ aret'.thread = t
    /\ th'[t].pc = "idle"
    /\ th[t].pc = "idle" => aret'.arg = NULL

\* what realloc can return in the other build for the call that returns in
\* this step: for a block, a new block or NULL as the allocation inside
\* reallocate succeeded or failed; for NULL, any free block or NULL
PlainData(t) ==
    IF aret'.arg = NULL THEN {b \in Blocks : ~mem[b].malloced} \cup {NULL}
    ELSE {th[t].new_space}

\* reallocate in this step and allocator_realloc, starting from the same
\* blocks, return the same kind of pointer and leave the same blocks live
SameContract(t, data) ==
    LET plain == allocator_realloc(th[t].own, aret'.arg, data)
    IN  /\ (plain.data = NULL) <=> (aret'.ptr = NULL)
        /\ Cardinality(plain.live) = Cardinality(th'[t].own)
        /\ plain.live \ {plain.data} = th'[t].own \ {aret'.ptr}

\* C32: the leak-tracking build and the pass-through build expose the same
\* allocation contract: for the same call sequence, reallocate and
\* allocator_realloc return the same kind of result and leave the same set
\* of live blocks, also for a NULL old pointer and for a failed allocation.
C32_SameContract ==
    [][\A t \in Threads : ReallocateReturns(t) =>
          \A data \in PlainData(t) : SameContract(t, data)]_vars

\* the claim for a NULL old pointer alone
C32_SameForNull ==
    [][\A t \in Threads : (ReallocateReturns(t) /\ aret'.arg = NULL) =>
          \A data \in PlainData(t) : SameContract(t, data)]_vars

\* the claim for a failed allocation alone
C32_SameOnFailure ==
    [][\A t \in Threads :
          (ReallocateReturns(t) /\ aret'.arg # NULL /\ aret'.ptr = NULL) =>
              \A data \in PlainData(t) : SameContract(t, data)]_vars

\* what the code does: the two builds agree when a block is reallocated and
\* the allocation succeeds, and when realloc(NULL, n) itself fails
C32_SameOnSuccess ==
    [][\A t \in Threads :
          (ReallocateReturns(t) /\ (aret'.arg # NULL => aret'.ptr # NULL)) =>
              \A data \in PlainData(t) \cap (IF aret'.arg = NULL THEN {NULL} ELSE Blocks) :
                  SameContract(t, data)]_vars

(* ------------------------------- C33 ---------------------------------- *)

\* the step in which an allocate or allocate_as_chunk call of thread t returns
AllocateReturns(t) ==
    /\ th[t].op \in {"allocate", "allocate_as_chunk"} /\ th[t].pc = "as_return"
    /\ th'[t].pc = "idle"
    /\ aret'.thread = t

\* C33: every block returned by allocate or allocate_as_chunk is entirely
\* zero-filled (all requested bytes are 0) at the moment it is returned, and
\* allocate_as_chunk returns len equal to the requested size exactly when
\* ptr is non-NULL and len 0 otherwise.
C33_ZeroFilled ==
    [][\A t \in Threads : AllocateReturns(t) =>
          LET ptr == aret'.ptr
              n == th[t].bytes
          IN  /\ aret'.op = th[t].op
              /\ ptr # NULL =>
                    /\ mem'[ptr].malloced
                    /\ Len(mem'[ptr].data) = n
                    /\ \A i \in 1 .. n : mem'[ptr].data[i] = 0
              /\ aret'.op = "allocate_as_chunk" =>
                    aret'.len = (IF ptr # NULL THEN n ELSE 0)
              /\ aret'.op = "allocate" => aret'.len = 0]_vars

\* allocate_as_chunk has returned two zero bytes beside a block that holds
\* other bytes
C33_Witness ==
    /\ aret.op = "allocate_as_chunk" /\ aret.ptr = 2 /\ aret.len = 2
    /\ mem[2].data = <<0, 0>>
    /\ mem[1].malloced /\ mem[1].data = <<7>>

\* allocate_as_chunk has returned the empty chunk: no block, len 0
C33_NoMemory ==
    /\ aret.op = "allocate_as_chunk" /\ aret.ptr = NULL /\ aret.len = 0
    /\ \E b \in Blocks : ~mem[b].malloced

(* ------------------------------- C34 ---------------------------------- *)

\* the step in which thread t calls free_pointer, reallocate or clone_bytes
\* with a NULL pointer: the call returns in the step in which it is made
NullCall(t) ==
    /\ th[t].pc = "idle"
    /\ aret'.thread = t
    /\ aret'.op \in {"free_pointer", "reallocate", "clone_bytes"}

\* C34: calls with a NULL pointer change nothing: free_pointer(NULL) returns
\* without touching the list or the mutex, and reallocate(NULL, n) and
\* clone_bytes(NULL, n) return NULL without allocating or inserting a record.
C34_NullChangesNothing ==
    [][\A t \in Threads : NullCall(t) =>
          /\ aret'.arg = NULL /\ aret'.ptr = NULL
          /\ allocations' = allocations
          /\ mutex' = mutex
          /\ mem' = mem
          /\ th' = th
          /\ acc'.touched = {}]_vars

\* free_pointer(NULL) has returned while another thread holds the mutex
\* and is about to unlink a record
C34_Witness ==
    /\ aret.op = "free_pointer" /\ aret.arg = NULL
    /\ \E u \in Threads \ {aret.thread} : mutex = u /\ th[u].pc = "fp_unlink"
    /\ th[aret.thread].own # {}

\* reallocate(NULL, n) has returned while a block is free
C34_ReallocateNull ==
    /\ aret.op = "reallocate" /\ aret.arg = NULL /\ aret.ptr = NULL
    /\ \E b \in Blocks : ~mem[b].malloced
    /\ \E u \in Threads \ {aret.thread} : mutex = u

\* clone_bytes(NULL, n) has returned while a block is free
C34_CloneNull ==
    /\ aret.op = "clone_bytes" /\ aret.arg = NULL /\ aret.ptr = NULL
    /\ th[aret.thread].pc = "idle"
    /\ \A b \in Blocks : ~mem[b].malloced
    /\ \E u \in Threads \ {aret.thread} : th[u].pc = "as_malloc"

(* ------------------------------- C35 ---------------------------------- *)

\* the object was last given a peer value of 0 or 1, and its private
\* exponent is at least 1
Degenerate(o) ==
    /\ life[o] = "live" /\ hist[o].sets > 0
    /\ RefValue(hist[o].last_peer) \in {0, 1}
    /\ obj[o].my_prime.v >= 1

\* C35: set_other_public_value performs no range validation of the peer
\* value: for every chunk it returns SUCCESS, and for the degenerate peer
\* values 0 and 1 the resulting shared secret is 0 and 1 respectively,
\* whatever the private exponent (any private exponent >= 1).
C35_NoRangeValidation ==
    /\ ret.op = "set_other_public_value" => ret.status = "SUCCESS"
    /\ \A o \in Objs : Degenerate(o) =>
          /\ obj[o].shared_secret_is_computed
          /\ obj[o].shared_secret = mpz_value(RefValue(hist[o].last_peer))
          /\ get_shared_secret(obj[o]).status = "SUCCESS"
          /\ get_shared_secret(obj[o]).chunk =
                 RefEncode(RefValue(hist[o].last_peer), obj[o].modulus_length)

\* the shared secret read back is 1 after the peer value 1, with a large exponent
C35_Witness ==
    /\ ret.op = "get_shared_secret" /\ ret.status = "SUCCESS"
    /\ Degenerate(ret.obj)
    /\ Hist.last_peer = <<1>> /\ This.my_prime.v = 25
    /\ ret.chunk = <<0, 1>>

\* the shared secret is 0 after the peer value 0
C35_Zero ==
    /\ ret.op = "set_other_public_value" /\ ret.status = "SUCCESS"
    /\ Degenerate(ret.obj)
    /\ Hist.last_peer = <<0>> /\ This.my_prime.v = 2
    /\ This.shared_secret.v = 0

(* ------------------------------- C36 ---------------------------------- *)

\* the last call of the listener was for a plain message in the expected
\* direction
Matched == lsn.last.plain /\ lsn.last.incoming = lsn.this.incoming

\* the payload-count assertion was evaluated in the last call
CountChecked == \E i \in DOMAIN lsn.last.asserts : lsn.last.asserts[i].what = "count"

\* C36: the message assert listener checks at most one message: it returns
\* TRUE (stays registered) for every message that is not plain or whose
\* direction differs from the expected one, and returns FALSE (is
\* unregistered) on the first plain message in the expected direction, after
\* applying the payload-count check only when the expected count is >= 0.
C36_ChecksOneMessage ==
    /\ lsn.checked <= 1
    /\ (lsn.last.called /\ ~Matched) =>
          /\ lsn.last.returned /\ lsn.last.value
          /\ lsn.last.asserts = <<>>
          /\ lsn.registered
    /\ (lsn.last.called /\ Matched) =>
          /\ lsn.checked = 1
          /\ lsn.last.returned => (~lsn.last.value /\ ~lsn.registered)
          /\ CountChecked <=> lsn.this.count >= 0

\* after a message that was passed over, the listener has checked a message
\* with two payloads against all three expectations and is unregistered
C36_Witness ==
    /\ lsn.last.called /\ Matched /\ lsn.skipped
    /\ lsn.last.returned /\ ~lsn.last.value /\ ~lsn.registered
    /\ lsn.this.count = 2 /\ Len(lsn.last.asserts) = 3
    /\ ~lsn.failed

\* a listener with a negative count has checked a message without counting
C36_NotCounted ==
    /\ lsn.last.called /\ Matched /\ lsn.last.returned
    /\ lsn.this.count = -1 /\ lsn.this.payload # 0
    /\ ~CountChecked /\ Len(lsn.last.asserts) = 1

(* ------------------------------- C37 ---------------------------------- *)

\* tpm_tss_tss2_create has returned in slot o after initialize_context failed
CreateFailed(o) == tss[o].pc = "returned"

\* C37: when initialize_context fails at any step, create returns NULL after
\* destroy, finalize_context tears down or finalizes only a TCTI or SYS
\* context whose initialization succeeded (never one that was merely
\* allocated), and every buffer initialize_context allocated is freed.
C37_FailureCleansUp ==
    \A o \in TssObjs : CreateFailed(o) =>
        /\ tss[o].result = "NULL" /\ tss[o].this_mem = "freed"
        /\ tss[o].misused = {}
        /\ tss[o].tcti_buf # "allocated"
        /\ tss[o].sys_buf # "allocated"

\* the claim's second part alone: only initialised contexts are torn down
C37_OnlyInitialised ==
    \A o \in TssObjs : CreateFailed(o) => tss[o].misused = {}

\* the claim's third part alone: no buffer is left allocated
C37_BuffersFreed ==
    \A o \in TssObjs : CreateFailed(o) =>
        (tss[o].tcti_buf # "allocated" /\ tss[o].sys_buf # "allocated")

\* what the code does: NULL after destroy, the object and the SYS buffer
\* freed; a context is torn down or finalized whenever its pointer is set,
\* so the one whose initialization has just failed is too
C37_TearsDownWhatIsAllocated ==
    \A o \in TssObjs : CreateFailed(o) =>
        /\ tss[o].result = "NULL" /\ tss[o].this_mem = "freed"
        /\ tss[o].sys_buf # "allocated"
        /\ tss[o].failed_at \in {"size", "tcti", "sys", "algs"}
        /\ tss[o].misused =
              (IF tss[o].failed_at = "tcti" /\ tss[o].tcti_context
               THEN {"tcti"} ELSE {})
              \cup (IF tss[o].failed_at = "sys" /\ tss[o].sys_context
                    THEN {"sys"} ELSE {})
        /\ tss[o].tcti_context <=> tss[o].tcti_state = "torn_down"
        /\ tss[o].sys_context <=> tss[o].sys_state = "finalized"

====
